---------------------------- MODULE Spec2Model ----------------------------
(***************************************************************************)
(* Model of the spectral alignment and combination core of specviewer:     *)
(* utils/resample.py (rebin_linear), processing/correlation.py             *)
(* (estimate_shift_nm) and processing/combine.py (combine_spectra).        *)
(*                                                                         *)
(* Numbers.  Wavelengths are integers counted in ticks of 1/TicksPerNm nm, *)
(* the resolution of the fine shift grid when the window is at its floor   *)
(* of 0.5 nm.  Flux values are fixed-point integers counted in units of    *)
(* 1/FluxUnit.  Every input the specifications draw keeps the arithmetic   *)
(* exact: sample gaps divide FluxUnit \div 2, flux inputs are multiples of *)
(* FluxUnit, and a reference span above 10 nm is a multiple of 10 nm.      *)
(* The model therefore computes what the code computes over the reals;     *)
(* floating-point rounding is not modelled.                                *)
(***************************************************************************)
EXTENDS Integers, Sequences, FiniteSets, TLC

VARIABLES
    \* one call of rebin_linear
    x, y, new_x, fill_value, rb_pc, rb_ret,
    \* one call of estimate_shift_nm
    ref_wavelength, ref_flux, wavelength, flux,
    es_pc, coarse_scores, best_shift, fine_scores, es_ret, evals,
    \* one call of combine_spectra
    spectra, reference_index, rest_frame, cb_pc, cb_ret,
    \* one call of SpectrumData.measure_snr
    sn_self, window_nm, sn_pc, sn_ret,
    \* one call of estimate_radial_velocity_kms, on the arguments of the estimator
    rv_pc, rv_shift_nm, rv_ret,
    \* one call of SpectrumCombiner.combine
    sv_spectra, sv_rest_frame, sv_pc, sv_ret,
    \* the arrays of one call: the objects held, what they held at the call
    \* and at the return, and the object the caller wrote afterwards
    st_fn, st_args, st_heap, st_before, st_after, st_pc, st_ret, st_target,
    \* the main window on the GUI thread: metadata and spectrum objects, the
    \* table, the store's cache, the open viewer, the handler in progress,
    \* and the history of repository fetches
    ap_meta, ap_spectra, ap_records, ap_sort, ap_cache, ap_dialogs,
    ap_pc, ap_run, ap_fetches,
    \* threads sharing one store: the cache, the objects fetched, the fetch
    \* log and each thread's position in download / bulk_get
    dl_cache, dl_objects, dl_fetches, dl_threads

rb_vars == <<x, y, new_x, fill_value, rb_pc, rb_ret>>
es_args == <<ref_wavelength, ref_flux, wavelength, flux>>
es_vars == <<ref_wavelength, ref_flux, wavelength, flux,
             es_pc, coarse_scores, best_shift, fine_scores, es_ret, evals>>
cb_vars == <<spectra, reference_index, rest_frame, cb_pc, cb_ret>>
sn_vars == <<sn_self, window_nm, sn_pc, sn_ret>>
\* the state of the calls added to the first three
rv_vars == <<rv_pc, rv_shift_nm, rv_ret>>
sv_vars == <<sv_spectra, sv_rest_frame, sv_pc, sv_ret>>
st_vars == <<st_fn, st_args, st_heap, st_before, st_after, st_pc, st_ret, st_target>>
ap_vars == <<ap_meta, ap_spectra, ap_records, ap_sort, ap_cache, ap_dialogs,
             ap_pc, ap_run, ap_fetches>>
dl_vars == <<dl_cache, dl_objects, dl_fetches, dl_threads>>
gui_vars == <<ap_vars, dl_vars>>
more_vars == <<sn_vars, rv_vars, sv_vars, st_vars, gui_vars>>
vars == <<rb_vars, es_vars, cb_vars, more_vars>>

---------------------------------------------------------------------------
(* Representation of floats and arrays *)

TicksPerNm == 160
FluxUnit == 1920
\* a non-finite float (nan, inf): one value outside every finite range used
NaN == -1000000

IsFinite(v) == v # NaN

\* a numpy array: its number of dimensions and its elements, flattened
Arr(n, d) == [ndim |-> n, data |-> d]
Arr1(d) == Arr(1, d)
Size(a) == Len(a.data)

\* a sequence built element by element, held as the array of its values
Seq1(f) == f \o <<>>

\* the element of a one-element set; Only({e : c \in {v}}) is e with v
\* evaluated once, however often e uses c
Only(S) == CHOOSE r \in S : TRUE

Abs(v) == IF v < 0 THEN -v ELSE v
Max(a, b) == IF a >= b THEN a ELSE b

SeqsUpTo(S, n) == UNION {[1..k -> S] : k \in 0..n}
Distinct(s) == \A i, j \in 1..Len(s) : i # j => s[i] # s[j]

\* the last element of d
MaxOf_Last(d) == d[Len(d)]

MinOf(d) == CHOOSE v \in {d[i] : i \in 1..Len(d)} : \A i \in 1..Len(d) : v <= d[i]
MaxOf(d) == CHOOSE v \in {d[i] : i \in 1..Len(d)} : \A i \in 1..Len(d) : v >= d[i]
AllFinite(d) == \A i \in 1..Len(d) : IsFinite(d[i])
Return(v) == [kind |-> "return", value |-> v]
Raise(e) == [kind |-> "raise", value |-> e]

---------------------------------------------------------------------------
(* numpy helpers, as rebin_linear and estimate_shift_nm use them *)

\* np.argsort: the order that sorts s ascending
ArgSort(s) ==
    LET rank(i) == Cardinality({j \in 1..Len(s) :
                        s[j] < s[i] \/ (s[j] = s[i] /\ j < i)}) + 1
    IN Seq1([r \in 1..Len(s) |-> CHOOSE i \in 1..Len(s) : rank(i) = r])

Take(s, order) == Seq1([r \in 1..Len(order) |-> s[order[r]]])

\* np.all(np.diff(x) > 0)
StrictlyIncreasing(s) == \A i \in 1..(Len(s) - 1) : s[i + 1] > s[i]

\* as InterpAt, with the first sample point taken to lie outside the domain
InterpAt_EdgeOutside(t, xp, fp, left, right) ==
    LET n == Len(xp) IN
    IF t <= xp[1] THEN left
    ELSE IF t > xp[n] THEN right
    ELSE LET j == CHOOSE k \in 1..n :
                      /\ xp[k] <= t
                      /\ (k = n \/ t < xp[k + 1])
         IN IF j = n \/ xp[j] = t THEN fp[j]
            ELSE IF ~IsFinite(fp[j]) \/ ~IsFinite(fp[j + 1]) THEN NaN
            ELSE fp[j] + ((fp[j + 1] - fp[j]) * (t - xp[j])) \div (xp[j + 1] - xp[j])

\* np.interp at one point t over sorted sample points xp with values fp; between
\* two samples the slope formula gives a non-finite value when either is non-finite
InterpAt(t, xp, fp, left, right) ==
    LET n == Len(xp) IN
    IF t < xp[1] THEN left
    ELSE IF t > xp[n] THEN right
    ELSE LET j == CHOOSE k \in 1..n :
                      /\ xp[k] <= t
                      /\ (k = n \/ t < xp[k + 1])
         IN IF j = n \/ xp[j] = t THEN fp[j]
            ELSE IF ~IsFinite(fp[j]) \/ ~IsFinite(fp[j + 1]) THEN NaN
            ELSE fp[j] + ((fp[j + 1] - fp[j]) * (t - xp[j])) \div (xp[j + 1] - xp[j])

np_interp(at, xp, fp, left, right) ==
    IF Len(xp) = 0 THEN Raise("ValueError: array of sample points is empty")
    ELSE Return(Arr(at.ndim,
                    Seq1([i \in 1..Len(at.data) |-> InterpAt(at.data[i], xp, fp, left, right)])))

---------------------------------------------------------------------------
(* utils/resample.py *)

\* as ReplaceNonFinite, with a fixed 0 in place of the caller's fill value
ReplaceNonFinite_FixedZero(ydata, fill) ==
    Seq1([i \in 1..Len(ydata) |-> IF IsFinite(ydata[i]) THEN ydata[i] ELSE 0])

\* y = np.where(np.isfinite(y), y, fill_value)
ReplaceNonFinite(ydata, fill) ==
    Seq1([i \in 1..Len(ydata) |-> IF IsFinite(ydata[i]) THEN ydata[i] ELSE fill])

SortOrder(xdata) ==
    IF StrictlyIncreasing(xdata) THEN Seq1([i \in 1..Len(xdata) |-> i]) ELSE ArgSort(xdata)

\* as rebin_linear, with np.interp's default edges (the end samples) for left and right
rebin_linear_DefaultEdges(ax, ay, anew_x, fill) ==
    IF ax.ndim # 1 \/ ay.ndim # 1
    THEN Raise("ValueError: Input arrays must be one-dimensional")
    ELSE IF Size(ax) # Size(ay)
    THEN Raise("ValueError: x and y must have the same length")
    ELSE LET yf == ReplaceNonFinite(ay.data, fill)
             order == SortOrder(ax.data)
             ys == Take(yf, order)
         IN IF Size(ax) = 0 THEN np_interp(anew_x, <<>>, <<>>, fill, fill)
            ELSE np_interp(anew_x, Take(ax.data, order), ys, ys[1], ys[Len(ys)])

\* as rebin_linear, sorting x alone and leaving y in the order given
rebin_linear_SortXOnly(ax, ay, anew_x, fill) ==
    IF ax.ndim # 1 \/ ay.ndim # 1
    THEN Raise("ValueError: Input arrays must be one-dimensional")
    ELSE IF Size(ax) # Size(ay)
    THEN Raise("ValueError: x and y must have the same length")
    ELSE LET yf == ReplaceNonFinite(ay.data, fill)
             order == SortOrder(ax.data)
         IN np_interp(anew_x, Take(ax.data, order), yf, fill, fill)

rebin_linear(ax, ay, anew_x, fill) ==
    IF ax.ndim # 1 \/ ay.ndim # 1
    THEN Raise("ValueError: Input arrays must be one-dimensional")
    ELSE IF Size(ax) # Size(ay)
    THEN Raise("ValueError: x and y must have the same length")
    ELSE LET yf == ReplaceNonFinite(ay.data, fill)
             order == SortOrder(ax.data)
         IN np_interp(anew_x, Take(ax.data, order), Take(yf, order), fill, fill)

---------------------------------------------------------------------------
(* processing/correlation.py *)

CoarseCount == 81
FineCount == 41

\* np.nanmedian of a non-empty sequence of finite values
Median(s) ==
    LET n == Len(s)
        sorted == Take(s, ArgSort(s))
    IN IF n % 2 = 1 THEN sorted[(n + 1) \div 2]
       ELSE (sorted[n \div 2] + sorted[n \div 2 + 1]) \div 2

Subtract(s, c) == Seq1([i \in 1..Len(s) |-> s[i] - c])

RECURSIVE DotUpTo(_, _, _)
DotUpTo(a, b, n) == IF n = 0 THEN 0 ELSE DotUpTo(a, b, n - 1) + a[n] * b[n]
\* np.dot of two sequences of one length
Dot(a, b) == DotUpTo(a, b, Len(a))

\* np.allclose(s, 0)
AllClose0(s) == \A i \in 1..Len(s) : s[i] = 0

\* np.linspace(a, b, n)
Linspace(a, b, n) == Seq1([i \in 1..n |-> a + ((i - 1) * (b - a)) \div (n - 1)])

\* np.argmax: the first index of the largest value
ArgMax(s) ==
    Only({CHOOSE i \in 1..Len(v) :
                          /\ \A j \in 1..Len(v) : v[j] <= v[i]
                          /\ \A j \in 1..(i - 1) : v[j] < v[i] :
          v \in {s}})

\* the reference sorted by wavelength
Grid(rw) == Take(rw, ArgSort(rw))
SortedRefFlux(rw, rf) == Take(rf, ArgSort(rw))

Span(grid) == IF Len(grid) > 1 THEN grid[Len(grid)] - grid[1] ELSE 0

RefResampled(rw, rf) ==
    LET f == SortedRefFlux(rw, rf) IN Subtract(f, Median(f))

\* the early returns of estimate_shift_nm, with span < 0 in place of span <= 0
EarlyReturn_StrictSpan(rw, rf) ==
    IF Span(Grid(rw)) < 0 \/ Len(rw) = 0 THEN TRUE
    ELSE AllClose0(RefResampled(rw, rf))

\* the early returns of estimate_shift_nm: undefined alignment
EarlyReturn(rw, rf) ==
    IF Span(Grid(rw)) <= 0 THEN TRUE
    ELSE AllClose0(RefResampled(rw, rf))

\* the wavelengths handed to the resampler, with the shift added instead
ShiftedWave_SignFlipped(w, shift_nm) == Seq1([i \in 1..Len(w) |-> w[i] + shift_nm])

\* wavelength - shift_nm
ShiftedWave(w, shift_nm) == Seq1([i \in 1..Len(w) |-> w[i] - shift_nm])

score(rw, rf, w, f, shift_nm) ==
    Only({IF r.kind = "raise" THEN r
            ELSE Only({Return(Dot(RefResampled(rw, rf), Subtract(r.value.data, m))) :
                       m \in {Median(r.value.data)}}) :
          r \in {rebin_linear(Arr1(ShiftedWave(w, shift_nm)), Arr1(f), Arr1(Grid(rw)), 0)}})

\* max(0.5, span * 0.05)
Window(span) == Max(TicksPerNm \div 2, span \div 20)

\* the coarse grid over [-window / 2, window / 2]
CoarseShifts_HalfRange(window) == Linspace(0 - window \div 2, window \div 2, CoarseCount)

CoarseShifts(window) == Linspace(0 - window, window, CoarseCount)

\* the fine grid, reaching window / 2 to each side of the coarse best
FineShifts_HalfWindow(best, window) ==
    Linspace(best - window \div 2, best + window \div 2, FineCount)

\* fine_window = window / 4
FineShifts(best, window) ==
    Linspace(best - window \div 4, best + window \div 4, FineCount)

RefWindow(rw) == Window(Span(Grid(rw)))

---------------------------------------------------------------------------
(* Inputs of the shift estimator specification *)

MaxRef == 3

Nm(k) == k * TicksPerNm
\* n wavelengths from start, step ticks apart
Ramp(start, step, n) == Seq1([i \in 1..n |-> start + (i - 1) * step])
Offset(s, d) == Seq1([i \in 1..Len(s) |-> s[i] + d])
Reverse(s) == Seq1([i \in 1..Len(s) |-> s[Len(s) + 1 - i]])

FluxLevels == {0, FluxUnit, 2 * FluxUnit}
\* 0, +0.6 nm, -0.6 nm, +0.7 nm
WaveOffsets == {0, 96, -96, 112}

\* a spectrum as the pair of its wavelength and flux sequences
Spectrum(w, f) == [wavelength |-> w, flux |-> f]

\* 500..509 nm in 1 nm steps, flat but for a spike at 505 nm
SpikeSpectra ==
    {Spectrum(Ramp(Nm(500), Nm(1), 10),
              Seq1([i \in 1..10 |-> IF i = 6 THEN b + h ELSE b])) :
        b \in {0, FluxUnit}, h \in {FluxUnit, 2 * FluxUnit}}

\* short spectra on a 1 nm grid, every flux pattern over FluxLevels
ShortSpectra ==
    {Spectrum(Ramp(Nm(500), Nm(1), Len(f)), f) : f \in SeqsUpTo(FluxLevels, MaxRef)}

\* a span of 20 nm, so the window is 1 nm; and a span of zero
WideSpectra ==
    {Spectrum(<<0, 960, 1920, 2880, 3200>>, f) :
        f \in {<<0, 0, FluxUnit, 0, 0>>, <<FluxUnit, 2 * FluxUnit, FluxUnit, FluxUnit, 0>>}}
ZeroSpanSpectra ==
    {Spectrum(<<Nm(500), Nm(500)>>, f) : f \in {<<0, FluxUnit>>, <<FluxUnit, FluxUnit>>}}

\* samples 0.2 nm (32 ticks) apart, the flux raised at an end of the grid
DenseSpectra ==
    {Spectrum(Ramp(Nm(500), 32, Len(f)), f) :
        f \in {<<3 * FluxUnit, 2 * FluxUnit, 2 * FluxUnit>>,
               <<3 * FluxUnit, 2 * FluxUnit, 2 * FluxUnit, 2 * FluxUnit, 3 * FluxUnit>>}}

RefSpectra ==
    SpikeSpectra \cup ShortSpectra \cup WideSpectra \cup ZeroSpanSpectra \cup DenseSpectra

\* the spectrum aligned to a reference: the reference moved by an offset, given in
\* order or reversed, or a spectrum with no samples
OthersOf(r) ==
    {Spectrum(Offset(r.wavelength, d), r.flux) : d \in WaveOffsets}
    \cup {Spectrum(Reverse(r.wavelength), Reverse(r.flux)), Spectrum(<<>>, <<>>)}

EstCalls ==
    UNION {{[ref |-> r, other |-> o] : o \in OthersOf(r)} :
              r \in RefSpectra \cup {Spectrum(Reverse(q.wavelength), Reverse(q.flux)) :
                                        q \in SpikeSpectra}}

EstIdle ==
    /\ ref_wavelength = <<>> /\ ref_flux = <<>> /\ wavelength = <<>> /\ flux = <<>>
    /\ es_pc = "idle"
    /\ coarse_scores = <<>> /\ fine_scores = <<>>
    /\ best_shift = 0 /\ es_ret = 0 /\ evals = 0

CombIdle ==
    /\ spectra = <<>> /\ reference_index = 0 /\ rest_frame = FALSE
    /\ cb_pc = "idle" /\ cb_ret = <<>>

RebinIdle ==
    /\ x = Arr1(<<>>) /\ y = Arr1(<<>>) /\ new_x = Arr1(<<>>)
    /\ fill_value = 0 /\ rb_pc = "idle" /\ rb_ret = Arr1(<<>>)

\* Optional[...]: None, or a value
None == [is_none |-> TRUE, value |-> 0]
NoArray == [is_none |-> TRUE, value |-> <<>>]
Some(v) == [is_none |-> FALSE, value |-> v]

SnrIdle ==
    /\ sn_self = [wavelength |-> <<>>, flux |-> <<>>, flux_err |-> NoArray]
    /\ window_nm = <<0, 0>>
    /\ sn_pc = "idle" /\ sn_ret = None

VelocityIdle == rv_pc = "idle" /\ rv_shift_nm = 0 /\ rv_ret = <<>>

ServiceIdle ==
    /\ sv_spectra = <<>> /\ sv_rest_frame = FALSE
    /\ sv_pc = "idle" /\ sv_ret = <<>>

StorageIdle ==
    /\ st_fn = "none" /\ st_args = <<>> /\ st_heap = <<>>
    /\ st_before = <<>> /\ st_after = <<>>
    /\ st_pc = "idle" /\ st_ret = <<>> /\ st_target = "none"

\* no handler is running
NoRun == [handler |-> "none", selected |-> <<>>, spectra |-> <<>>]

\* no search has finished: the table is empty and nothing is cached
AppIdle ==
    /\ ap_meta = <<>> /\ ap_spectra = <<>> /\ ap_records = <<>>
    /\ ap_sort = [column |-> 0, descending |-> FALSE]
    /\ ap_cache = <<>> /\ ap_dialogs = <<>>
    /\ ap_pc = "idle" /\ ap_run = NoRun /\ ap_fetches = <<>>

DownloadIdle ==
    /\ dl_cache = <<>> /\ dl_objects = <<>> /\ dl_fetches = <<>>
    /\ dl_threads = <<>>

GuiIdle == AppIdle /\ DownloadIdle

MoreIdle == SnrIdle /\ VelocityIdle /\ ServiceIdle /\ StorageIdle /\ GuiIdle

---------------------------------------------------------------------------
(* Inputs of the resampler specification *)

MaxLen == 3
MaxNew == 2

XPoints == {0, 80, 160, 320}
\* below every sample, between two samples, on a sample, above every sample
NewPoints == {-80, 40, 160, 400}
YValues == {FluxUnit, 3 * FluxUnit, NaN}
FillValues == {0, 0 - FluxUnit}

\* well-formed calls: one-dimensional x and y of one length, x pairwise distinct
RebinWellFormed ==
    UNION {[x : {Arr1(d) : d \in {s \in [1..n -> XPoints] : Distinct(s)}},
            y : {Arr1(d) : d \in [1..n -> YValues]},
            new_x : {Arr1(d) : d \in SeqsUpTo(NewPoints, MaxNew)},
            fill_value : FillValues] : n \in 0..MaxLen}

\* calls on the same grid: new_x is x
RebinSameGrid ==
    {[x |-> c.x, y |-> c.y, new_x |-> c.x, fill_value |-> c.fill_value] :
        c \in {d \in RebinWellFormed : Size(d.new_x) = 0}}

\* calls that pass a non-finite fill value
RebinNonFiniteFill ==
    UNION {[x : {Arr1(d) : d \in {s \in [1..n -> XPoints] : Distinct(s)}},
            y : {Arr1(d) : d \in [1..n -> YValues]},
            new_x : {Arr1(d) : d \in SeqsUpTo(NewPoints, MaxNew - 1)},
            fill_value : {NaN}] : n \in 1..MaxLen}

\* calls that vary the shapes: scalars, two-dimensional arrays, unequal lengths
ShapeData == {<<80>>, <<0, 160>>}
RebinShapes ==
    [x : {Arr(n, d) : n \in 0..2, d \in ShapeData},
     y : {Arr(n, d) : n \in 0..2, d \in {<<FluxUnit>>, <<FluxUnit, 3 * FluxUnit>>}},
     new_x : {Arr(n, d) : n \in 0..2, d \in {<<40>>, <<-80, 80>>}},
     fill_value : {0}]

RebinCalls == RebinWellFormed \cup RebinSameGrid \cup RebinNonFiniteFill \cup RebinShapes

InitRebin ==
    \E c \in RebinCalls :
        /\ x = c.x
        /\ y = c.y
        /\ new_x = c.new_x
        /\ fill_value = c.fill_value
        /\ rb_pc = "call"
        /\ rb_ret = Arr1(<<>>)
        /\ EstIdle
        /\ CombIdle
        /\ MoreIdle

RebinReturn ==
    /\ rb_pc = "call"
    /\ rebin_linear(x, y, new_x, fill_value).kind = "return"
    /\ rb_ret' = rebin_linear(x, y, new_x, fill_value).value
    /\ rb_pc' = "return"
    /\ UNCHANGED <<x, y, new_x, fill_value>>
    /\ UNCHANGED <<es_vars, cb_vars, more_vars>>

RebinRaise ==
    /\ rb_pc = "call"
    /\ rebin_linear(x, y, new_x, fill_value).kind = "raise"
    /\ rb_pc' = "raise"
    /\ UNCHANGED <<x, y, new_x, fill_value, rb_ret>>
    /\ UNCHANGED <<es_vars, cb_vars, more_vars>>

NextRebin == RebinReturn \/ RebinRaise

SpecRebin == InitRebin /\ [][NextRebin]_vars

---------------------------------------------------------------------------
(* estimate_shift_nm, one step per score evaluation *)

InitShift ==
    /\ \E c \in EstCalls :
        /\ ref_wavelength = c.ref.wavelength
        /\ ref_flux = c.ref.flux
        /\ wavelength = c.other.wavelength
        /\ flux = c.other.flux
    /\ es_pc = "call"
    /\ coarse_scores = <<>> /\ fine_scores = <<>>
    /\ best_shift = 0 /\ es_ret = 0 /\ evals = 0
    /\ RebinIdle
    /\ CombIdle
    /\ MoreIdle

\* lines 23-41: the conversions, the sort and the two early returns
EstEntry ==
    /\ es_pc = "call"
    /\ IF EarlyReturn(ref_wavelength, ref_flux)
       THEN es_pc' = "done" /\ es_ret' = 0
       ELSE es_pc' = "coarse" /\ es_ret' = es_ret
    /\ UNCHANGED <<es_args, coarse_scores, best_shift, fine_scores, evals>>
    /\ UNCHANGED <<rb_vars, cb_vars, more_vars>>

\* line 50: the next element of coarse_scores
EstCoarseScore ==
    /\ es_pc = "coarse"
    /\ Len(coarse_scores) < CoarseCount
    /\ LET s == CoarseShifts(RefWindow(ref_wavelength))[Len(coarse_scores) + 1]
           r == score(ref_wavelength, ref_flux, wavelength, flux, s)
       IN /\ r.kind = "return"
          /\ coarse_scores' = Append(coarse_scores, r.value)
    /\ evals' = evals + 1
    /\ UNCHANGED <<es_args, es_pc, best_shift, fine_scores, es_ret>>
    /\ UNCHANGED <<rb_vars, cb_vars, more_vars>>

\* lines 51-52: the coarse argmax
EstCoarseBest ==
    /\ es_pc = "coarse"
    /\ Len(coarse_scores) = CoarseCount
    /\ best_shift' = CoarseShifts(RefWindow(ref_wavelength))[ArgMax(coarse_scores)]
    /\ es_pc' = "fine"
    /\ UNCHANGED <<es_args, coarse_scores, fine_scores, es_ret, evals>>
    /\ UNCHANGED <<rb_vars, cb_vars, more_vars>>

\* line 56: the next element of fine_scores
EstFineScore ==
    /\ es_pc = "fine"
    /\ Len(fine_scores) < FineCount
    /\ LET s == FineShifts(best_shift, RefWindow(ref_wavelength))[Len(fine_scores) + 1]
           r == score(ref_wavelength, ref_flux, wavelength, flux, s)
       IN /\ r.kind = "return"
          /\ fine_scores' = Append(fine_scores, r.value)
    /\ evals' = evals + 1
    /\ UNCHANGED <<es_args, es_pc, coarse_scores, best_shift, es_ret>>
    /\ UNCHANGED <<rb_vars, cb_vars, more_vars>>

\* lines 57-59: the fine argmax, returned
EstFineBest ==
    /\ es_pc = "fine"
    /\ Len(fine_scores) = FineCount
    /\ es_ret' = FineShifts(best_shift, RefWindow(ref_wavelength))[ArgMax(fine_scores)]
    /\ es_pc' = "done"
    /\ UNCHANGED <<es_args, coarse_scores, best_shift, fine_scores, evals>>
    /\ UNCHANGED <<rb_vars, cb_vars, more_vars>>

\* a score evaluation whose resampling raises: the error leaves estimate_shift_nm
EstScoreRaise ==
    /\ \/ es_pc = "coarse" /\ Len(coarse_scores) < CoarseCount
       \/ es_pc = "fine" /\ Len(fine_scores) < FineCount
    /\ LET shifts == IF es_pc = "coarse"
                     THEN CoarseShifts(RefWindow(ref_wavelength))
                     ELSE FineShifts(best_shift, RefWindow(ref_wavelength))
           k == IF es_pc = "coarse" THEN Len(coarse_scores) ELSE Len(fine_scores)
       IN score(ref_wavelength, ref_flux, wavelength, flux, shifts[k + 1]).kind = "raise"
    /\ evals' = evals + 1
    /\ es_pc' = "raise"
    /\ UNCHANGED <<es_args, coarse_scores, best_shift, fine_scores, es_ret>>
    /\ UNCHANGED <<rb_vars, cb_vars, more_vars>>

NextShift ==
    \/ EstEntry
    \/ EstCoarseScore
    \/ EstCoarseBest
    \/ EstFineScore
    \/ EstFineBest
    \/ EstScoreRaise

SpecShift == InitShift /\ [][NextShift]_vars

---------------------------------------------------------------------------
(* estimate_shift_nm as one function, as combine_spectra calls it *)

Scores(rw, rf, w, f, shifts) ==
    Seq1([k \in 1..Len(shifts) |-> score(rw, rf, w, f, shifts[k])])

Values(rs) == Seq1([k \in 1..Len(rs) |-> rs[k].value])
FirstRaise(rs) ==
    rs[CHOOSE k \in 1..Len(rs) :
          rs[k].kind = "raise" /\ \A j \in 1..(k - 1) : rs[j].kind # "raise"]
AnyRaise(rs) == \E k \in 1..Len(rs) : rs[k].kind = "raise"

estimate_shift_nm(rw, rf, w, f) ==
    IF EarlyReturn(rw, rf) THEN Return(0)
    ELSE Only({IF AnyRaise(coarse) THEN FirstRaise(coarse)
            ELSE Only({Only({IF AnyRaise(fine) THEN FirstRaise(fine)
                    ELSE Return(FineShifts(best, RefWindow(rw))[ArgMax(Values(fine))]) :
                       fine \in {Scores(rw, rf, w, f, FineShifts(best, RefWindow(rw)))}}) :
                       best \in {CoarseShifts(RefWindow(rw))[ArgMax(Values(coarse))]}}) :
               coarse \in {Scores(rw, rf, w, f, CoarseShifts(RefWindow(rw)))}})

---------------------------------------------------------------------------
(* processing/combine.py *)

RECURSIVE Gcd(_, _)
Gcd(a, b) == IF b = 0 THEN a ELSE Gcd(b, a % b)

\* the float a / b for b > 0, kept exact as a reduced fraction
Frac(a, b) ==
    LET g == Gcd(Abs(a), b) IN [num |-> a \div g, den |-> b \div g]

\* spectra[reference_index] of a Python list: negative indices count from the end
ListIndex(n, i) == IF i < 0 THEN n + i + 1 ELSE i + 1

\* as CombineOne, passing over a spectrum of the wrong shape instead of raising:
\* it adds no finite value at any grid point
CombineOne_SkipInvalid(ref_wave, ref_f, sp, rf) ==
    IF sp.wavelength.ndim # 1 \/ sp.flux.ndim # 1 \/ Size(sp.wavelength) # Size(sp.flux)
    THEN Return([shift |-> 0, rebinned |-> Seq1([i \in 1..Size(ref_wave) |-> NaN])])
    ELSE Only({IF est.kind = "raise" THEN est
                ELSE Only({IF r.kind = "raise" THEN r
                            ELSE Return([shift |-> est.value, rebinned |-> r.value.data]) :
                           r \in {rebin_linear(Arr1(ShiftedWave(sp.wavelength.data, est.value)),
                                       sp.flux, ref_wave, 0)}}) :
               est \in {IF rf
              THEN estimate_shift_nm(ref_wave.data, ref_f.data,
                                     sp.wavelength.data, sp.flux.data)
              ELSE Return(0)}})

\* one pass of the loop body for the spectrum sp
CombineOne(ref_wave, ref_f, sp, rf) ==
    IF sp.wavelength.ndim # 1 \/ sp.flux.ndim # 1
    THEN Raise("ValueError: Wavelength and flux arrays must be one-dimensional")
    ELSE IF Size(sp.wavelength) # Size(sp.flux)
    THEN Raise("ValueError: Wavelength and flux arrays must match in length")
    ELSE Only({IF est.kind = "raise" THEN est
                ELSE Only({IF r.kind = "raise" THEN r
                            ELSE Return([shift |-> est.value, rebinned |-> r.value.data]) :
                           r \in {rebin_linear(Arr1(ShiftedWave(sp.wavelength.data, est.value)),
                                       sp.flux, ref_wave, 0)}}) :
               est \in {IF rf
              THEN estimate_shift_nm(ref_wave.data, ref_f.data,
                                     sp.wavelength.data, sp.flux.data)
              ELSE Return(0)}})

RECURSIVE SumValid(_, _, _)
\* accum[i] after the first k spectra are added where their values are finite
SumValid(ones, i, k) ==
    IF k = 0 THEN 0
    ELSE SumValid(ones, i, k - 1)
         + (IF IsFinite(ones[k].rebinned[i]) THEN ones[k].rebinned[i] ELSE 0)

RECURSIVE CountValid_NonZeroOnly(_, _, _)
\* as CountValid, leaving out the values that are 0 (as if a fill were no sample)
CountValid_NonZeroOnly(ones, i, k) ==
    IF k = 0 THEN 0
    ELSE CountValid_NonZeroOnly(ones, i, k - 1)
         + (IF IsFinite(ones[k].rebinned[i]) /\ ones[k].rebinned[i] # 0 THEN 1 ELSE 0)

RECURSIVE CountValid(_, _, _)
\* weights[i] after the first k spectra
CountValid(ones, i, k) ==
    IF k = 0 THEN 0
    ELSE CountValid(ones, i, k - 1) + (IF IsFinite(ones[k].rebinned[i]) THEN 1 ELSE 0)

\* accum / weights left undivided
Average_NoDivide(accum, weights) ==
    Seq1([i \in 1..Len(accum) |-> Frac(accum[i], 1)])

\* accum / np.where(weights == 0, 1.0, weights)
Average(accum, weights) ==
    Seq1([i \in 1..Len(accum) |->
            Frac(accum[i], IF weights[i] = 0 THEN 1 ELSE weights[i])])

\* the result once every pass of the loop has returned
CombinationResult(ref_wave, ones) ==
    LET n == Len(ones)
        m == Size(ref_wave)
    IN Only({Only({[wavelength |-> ref_wave.data,
             flux |-> Average(accum, weights),
             shifts_applied_nm |-> Seq1([k \in 1..n |-> ones[k].shift])] :
             weights \in {Seq1([i \in 1..m |-> CountValid(ones, i, n)])}}) :
             accum \in {Seq1([i \in 1..m |-> SumValid(ones, i, n)])}})

combine_spectra(sps, ref_index, rf) ==
    LET n == Len(sps) IN
    IF n = 0 THEN Raise("ValueError: No spectra provided")
    ELSE IF ref_index >= n \/ ref_index < 0 - n
    THEN Raise("IndexError: list index out of range")
    ELSE LET ref == sps[ListIndex(n, ref_index)] IN
         IF ref.wavelength.ndim # 1
         THEN Raise("ValueError: Wavelength arrays must be one-dimensional")
         ELSE Only({IF AnyRaise(rs) THEN FirstRaise(rs)
                      ELSE Only({Return(CombinationResult(ref.wavelength, ones)) :
                                 ones \in {Values(rs)}}) :
                    rs \in {Seq1([k \in 1..n |-> CombineOne(ref.wavelength, ref.flux, sps[k], rf)])}})

---------------------------------------------------------------------------
(* Inputs of the combiner specification *)

MaxSpectra == 3

ASpectrum(w, f) == [wavelength |-> Arr1(w), flux |-> Arr1(f)]

\* three samples 1 nm apart; the same out of order; moved up by 1 nm; and two
\* samples 2 nm apart
PlainSpectra ==
    {ASpectrum(Ramp(Nm(500), Nm(1), 3), <<FluxUnit, 3 * FluxUnit, 2 * FluxUnit>>),
     ASpectrum(<<Nm(502), Nm(500), Nm(501)>>, <<2 * FluxUnit, FluxUnit, 3 * FluxUnit>>),
     ASpectrum(Ramp(Nm(501), Nm(1), 3), <<3 * FluxUnit, 2 * FluxUnit, 2 * FluxUnit>>),
     ASpectrum(Ramp(Nm(500), Nm(2), 2), <<0, 2 * FluxUnit>>)}
\* a non-finite flux sample; a wavelength sampled twice; no samples at all
OddSpectra ==
    {ASpectrum(Ramp(Nm(500), Nm(1), 3), <<FluxUnit, NaN, 2 * FluxUnit>>),
     ASpectrum(<<Nm(500), Nm(500), Nm(501)>>, <<FluxUnit, 3 * FluxUnit, 2 * FluxUnit>>),
     ASpectrum(<<>>, <<>>)}
\* a two-dimensional wavelength; a two-dimensional flux; unequal lengths
ShapeSpectra ==
    {[wavelength |-> Arr(2, <<Nm(500), Nm(501)>>), flux |-> Arr1(<<FluxUnit, 2 * FluxUnit>>)],
     [wavelength |-> Arr1(<<Nm(500), Nm(501)>>), flux |-> Arr(2, <<FluxUnit, 2 * FluxUnit>>)],
     ASpectrum(<<Nm(500), Nm(501)>>, <<FluxUnit, 2 * FluxUnit, FluxUnit>>)}
CombSpectra == PlainSpectra \cup OddSpectra \cup ShapeSpectra

\* lists aligned in the rest frame are kept short: each member costs 122 scores
CombCalls ==
    [spectra : SeqsUpTo(CombSpectra, MaxSpectra),
     reference_index : {0, 1, -1}, rest_frame : {FALSE}]
    \cup [spectra : SeqsUpTo(PlainSpectra, 2), reference_index : {0, 1}, rest_frame : {TRUE}]

InitCombine ==
    /\ \E c \in CombCalls :
        /\ spectra = c.spectra
        /\ reference_index = c.reference_index
        /\ rest_frame = c.rest_frame
    /\ cb_pc = "call"
    /\ cb_ret = <<>>
    /\ RebinIdle
    /\ EstIdle
    /\ MoreIdle

CombineReturn ==
    /\ cb_pc = "call"
    /\ \E r \in {combine_spectra(spectra, reference_index, rest_frame)} :
          r.kind = "return" /\ cb_ret' = r.value
    /\ cb_pc' = "return"
    /\ UNCHANGED <<spectra, reference_index, rest_frame>>
    /\ UNCHANGED <<rb_vars, es_vars, more_vars>>

CombineRaise ==
    /\ cb_pc = "call"
    /\ \E r \in {combine_spectra(spectra, reference_index, rest_frame)} :
          r.kind = "raise" /\ cb_ret' = r.value
    /\ cb_pc' = "raise"
    /\ UNCHANGED <<spectra, reference_index, rest_frame>>
    /\ UNCHANGED <<rb_vars, es_vars, more_vars>>

NextCombine == CombineReturn \/ CombineRaise

SpecCombine == InitCombine /\ [][NextCombine]_vars

---------------------------------------------------------------------------
(* The resampler and the combiner side by side: a call of either *)

InitRebinCombine == InitRebin \/ InitCombine

NextRebinCombine == NextRebin \/ NextCombine

SpecRebinCombine == InitRebinCombine /\ [][NextRebinCombine]_vars

---------------------------------------------------------------------------
(* processing/correlation.py: estimate_radial_velocity_kms *)

\* 299792.458 km/s, in m/s
SPEED_OF_LIGHT_KMS == 299792458

\* the float a / b for b # 0, kept exact as a reduced fraction
SignedFrac(a, b) == IF b < 0 THEN Frac(0 - a, 0 - b) ELSE Frac(a, b)

\* a pivot that is not finite: the fraction with denominator 0
NanPivot == [num |-> 0, den |-> 0]

\* as Pivot, taking the first reference wavelength for the median
Pivot_First(rw) == IF Len(rw) = 0 THEN NanPivot ELSE Frac(rw[1], 1)

\* np.nanmedian(ref_wavelength) of finite wavelengths, as a fraction; nan for
\* no wavelengths
Pivot(rw) ==
    IF Len(rw) = 0 THEN NanPivot
    ELSE Only({LET n == Len(sorted) IN
            IF n % 2 = 1 THEN Frac(sorted[(n + 1) \div 2], 1)
            ELSE SignedFrac(sorted[n \div 2] + sorted[n \div 2 + 1], 2) :
               sorted \in {Take(rw, ArgSort(rw))}})

\* a velocity scale * num / den
Velocity(scale, num, den) == [scale |-> scale, ratio |-> SignedFrac(num, den)]

\* lines 71-74, for the shift returned at line 70
VelocityOf(shift, rw) ==
    Only({IF pivot.num = 0 \/ pivot.den = 0 THEN Velocity(0, 0, 1)
        ELSE Velocity(SPEED_OF_LIGHT_KMS, shift * pivot.den, pivot.num) :
          pivot \in {Pivot(rw)}})

---------------------------------------------------------------------------
(* Inputs and steps of the radial velocity specification *)

\* three samples 1 nm apart around 0 nm, from 0 nm and from 500 nm, two samples
\* from 500 nm, a span of zero, and no samples
VelocityRefs ==
    {Spectrum(Ramp(start, Nm(1), Len(f)), f) :
        start \in {0 - Nm(1), 0, Nm(500)},
        f \in {<<0, FluxUnit, 0>>, <<FluxUnit, 0, 0>>, <<FluxUnit, FluxUnit, FluxUnit>>,
               <<0, FluxUnit>>}}
    \cup ZeroSpanSpectra \cup {Spectrum(<<>>, <<>>)}

VelocityCalls == UNION {{[ref |-> r, other |-> o] : o \in OthersOf(r)} : r \in VelocityRefs}

InitVelocity ==
    /\ \E c \in VelocityCalls :
        /\ ref_wavelength = c.ref.wavelength
        /\ ref_flux = c.ref.flux
        /\ wavelength = c.other.wavelength
        /\ flux = c.other.flux
    /\ es_pc = "idle"
    /\ coarse_scores = <<>> /\ fine_scores = <<>>
    /\ best_shift = 0 /\ es_ret = 0 /\ evals = 0
    /\ rv_pc = "call" /\ rv_shift_nm = 0 /\ rv_ret = <<>>
    /\ RebinIdle
    /\ CombIdle
    /\ SnrIdle
    /\ ServiceIdle
    /\ StorageIdle
    /\ GuiIdle

\* lines 70-74
VelocityReturn ==
    /\ rv_pc = "call"
    /\ \E r \in {estimate_shift_nm(ref_wavelength, ref_flux, wavelength, flux)} :
          /\ r.kind = "return"
          /\ rv_shift_nm' = r.value
          /\ rv_ret' = VelocityOf(r.value, ref_wavelength)
    /\ rv_pc' = "return"
    /\ UNCHANGED <<rb_vars, es_vars, cb_vars, sn_vars, sv_vars, st_vars, gui_vars>>

\* line 70 raises: the error leaves estimate_radial_velocity_kms
VelocityRaise ==
    /\ rv_pc = "call"
    /\ \E r \in {estimate_shift_nm(ref_wavelength, ref_flux, wavelength, flux)} :
          /\ r.kind = "raise"
          /\ rv_ret' = r.value
    /\ rv_pc' = "raise"
    /\ UNCHANGED rv_shift_nm
    /\ UNCHANGED <<rb_vars, es_vars, cb_vars, sn_vars, sv_vars, st_vars, gui_vars>>

NextVelocity == VelocityReturn \/ VelocityRaise

SpecVelocity == InitVelocity /\ [][NextVelocity]_vars

---------------------------------------------------------------------------
(* models.py: SpectrumData.measure_snr *)

\* the largest finite float, on the scale of the model: a quotient beyond it is
\* inf
FloatMax == 1000

\* the members of the index set S in ascending order, as a boolean mask selects
MaskIndices(S) ==
    Seq1([r \in 1..Cardinality(S) |->
            CHOOSE i \in S : Cardinality({j \in S : j < i}) = r - 1])

\* np.abs(f / e) for finite f and finite e > 0
AbsRatio(f, e) == IF Abs(f) \div e > FloatMax THEN NaN ELSE Abs(f) \div e

\* np.nanmedian of non-empty ratios, none of them nan: inf sorts last
NanMedian(ratio) ==
    Only({LET n == Len(sorted) IN
            IF n % 2 = 1 THEN sorted[(n + 1) \div 2]
            ELSE IF ~IsFinite(sorted[n \div 2 + 1]) THEN NaN
            ELSE (sorted[n \div 2] + sorted[n \div 2 + 1]) \div 2 :
          sorted \in {Take(ratio, ArgSort(Seq1([i \in 1..Len(ratio) |->
                IF IsFinite(ratio[i]) THEN ratio[i] ELSE FloatMax + 1])))}})

\* as InWindow, with the ends of the window left out
InWindow_Open(w, win) == IsFinite(w) /\ w > win[1] /\ w < win[2]

\* (wavelength >= window_nm[0]) & (wavelength <= window_nm[1])
InWindow(w, win) == IsFinite(w) /\ w >= win[1] /\ w <= win[2]

measure_snr(self, win) ==
    IF Len(self.wavelength) = 0 \/ self.flux_err.is_none THEN None
    ELSE Only({IF Len(mask) = 0 THEN None
            ELSE Only({IF Len(valid) = 0 THEN None
                    ELSE Only({IF ~IsFinite(value) THEN None ELSE Some(value) :
                               value \in {NanMedian(Seq1([r \in 1..Len(valid) |->
                                    AbsRatio(self.flux[mask[valid[r]]],
                                             self.flux_err.value[mask[valid[r]]])]))}}) :
                       valid \in {MaskIndices({r \in 1..Len(mask) :
                            /\ IsFinite(self.flux[mask[r]])
                            /\ IsFinite(self.flux_err.value[mask[r]])
                            /\ self.flux_err.value[mask[r]] > 0
                            /\ self.flux[mask[r]] # 0})}}) :
               mask \in {MaskIndices({i \in 1..Len(self.wavelength) : InWindow(self.wavelength[i], win)})}})

---------------------------------------------------------------------------
(* Inputs and steps of the signal-to-noise specification *)

MaxSamples == 3

\* flux: zero, non-finite, negative, and one whose quotient by the smallest
\* uncertainty is beyond FloatMax
SnrFlux == {0, NaN, -48, 2400}
SnrErr == {NaN, 0, 1, 4}

SnrSpectra ==
    UNION {[wavelength : {Ramp(Nm(500), Nm(1), n)},
            flux : [1..n -> SnrFlux],
            flux_err : {Some(e) : e \in [1..n -> SnrErr]} \cup {NoArray}] : n \in 0..MaxSamples}

\* the whole range, ends on samples; one sample; between samples; outside
SnrWindows ==
    {<<Nm(500), Nm(502)>>, <<Nm(501), Nm(501)>>,
     <<Nm(500) + 80, Nm(501) + 80>>, <<Nm(510), Nm(520)>>}

InitSnr ==
    /\ sn_self \in SnrSpectra
    /\ window_nm \in SnrWindows
    /\ sn_pc = "call"
    /\ sn_ret = None
    /\ RebinIdle
    /\ EstIdle
    /\ CombIdle
    /\ VelocityIdle
    /\ ServiceIdle
    /\ StorageIdle
    /\ GuiIdle

MeasureSnr ==
    /\ sn_pc = "call"
    /\ sn_ret' = measure_snr(sn_self, window_nm)
    /\ sn_pc' = "return"
    /\ UNCHANGED <<sn_self, window_nm>>
    /\ UNCHANGED <<rb_vars, es_vars, cb_vars, rv_vars, sv_vars, st_vars, gui_vars>>

NextSnr == MeasureSnr

SpecSnr == InitSnr /\ [][NextSnr]_vars

---------------------------------------------------------------------------
(* services/spectra.py: SpectrumCombiner.combine *)

\* Optional[float] holding a fraction
NoFloat == [is_none |-> TRUE, value |-> [num |-> 0, den |-> 1]]

\* a str as the sequence of its characters
COMBINED_PREFIX == <<"C", "O", "M", "B", "I", "N", "E", "D", "-">>

RECURSIVE JoinUpTo(_, _, _)
JoinUpTo(sep, strs, n) ==
    IF n = 0 THEN <<>>
    ELSE IF n = 1 THEN strs[1]
    ELSE JoinUpTo(sep, strs, n - 1) \o sep \o strs[n]
\* the parts one after the other, with nothing between them
Join_NoSeparator(sep, strs) == JoinUpTo(<<>>, strs, Len(strs))

\* sep.join(strs)
Join(sep, strs) == JoinUpTo(sep, strs, Len(strs))

\* [m.field for m in metas if m.field is not None], by the name of the field
Defined(opts) ==
    Only({Seq1([r \in 1..Len(idx) |-> opts[idx[r]].value]) :
            idx \in {MaskIndices({i \in 1..Len(opts) : ~opts[i].is_none})}})

RECURSIVE FracSumUpTo(_, _)
\* the sum of the first n fractions of s
FracSumUpTo(s, n) ==
    IF n = 0 THEN [num |-> 0, den |-> 1]
    ELSE Only({Frac(t.num * s[n].den + s[n].num * t.den, t.den * s[n].den) :
                t \in {FracSumUpTo(s, n - 1)}})

\* float(np.mean(resolutions)) of a non-empty list
Mean(s) == Only({Frac(t.num, t.den * Len(s)) : t \in {FracSumUpTo(s, Len(s))}})

\* the metadata of the last source
Reference_Last(metas) == metas[Len(metas)]

\* the metadata of ref_spec = spectra[0]
Reference(metas) == metas[1]

\* the combined product's SpectrumMetadata (lines 161-178)
CombinedMetadata(metas) ==
    LET ref == Reference(metas)
        wmins == Defined(Seq1([k \in 1..Len(metas) |-> metas[k].wvl_min_nm]))
        wmaxs == Defined(Seq1([k \in 1..Len(metas) |-> metas[k].wvl_max_nm]))
        resolutions == Defined(Seq1([k \in 1..Len(metas) |-> metas[k].resolution]))
    IN [obs_id |-> COMBINED_PREFIX \o Join(<<"+">>, Seq1([k \in 1..Len(metas) |-> metas[k].obs_id])),
        target |-> ref.target,
        instrument |-> "Combined",
        wvl_min_nm |-> IF Len(wmins) > 0 THEN Some(MinOf(wmins)) ELSE ref.wvl_min_nm,
        wvl_max_nm |-> IF Len(wmaxs) > 0 THEN Some(MaxOf(wmaxs)) ELSE ref.wvl_max_nm,
        resolution |-> IF Len(resolutions) > 0
                       THEN [is_none |-> FALSE, value |-> Mean(resolutions)]
                       ELSE ref.resolution,
        snr_reported |-> NoFloat,
        release_date |-> [is_none |-> FALSE, value |-> "-"],
        product_type |-> [is_none |-> FALSE, value |-> "COMBINED"],
        selected |-> TRUE,
        used_in_combination |-> FALSE,
        is_combined_product |-> TRUE]

\* SpectrumCombiner.combine(spectra, rest_frame)
combine(sps, rf) ==
    IF Len(sps) = 0 THEN Raise("ValueError: No spectra provided for combination")
    ELSE Only({IF combo.kind = "raise" THEN combo
               ELSE Return([metadata |-> CombinedMetadata(Seq1([k \in 1..Len(sps) |-> sps[k].metadata])),
                            wavelength |-> combo.value.wavelength,
                            flux |-> combo.value.flux,
                            flux_err |-> NoArray]) :
                combo \in {combine_spectra(Seq1([k \in 1..Len(sps) |->
                                [wavelength |-> sps[k].wavelength, flux |-> sps[k].flux]]), 0, rf)}})

---------------------------------------------------------------------------
(* Inputs and steps of the service specification *)

MaxSources == 2

SourceMetadata(id, tgt, inst, lo, hi, res) ==
    [obs_id |-> id, target |-> tgt, instrument |-> inst,
     wvl_min_nm |-> lo, wvl_max_nm |-> hi, resolution |-> res,
     snr_reported |-> NoFloat,
     release_date |-> [is_none |-> FALSE, value |-> "2020-01-01"],
     product_type |-> [is_none |-> FALSE, value |-> "SPECTRUM"],
     selected |-> TRUE, used_in_combination |-> FALSE, is_combined_product |-> FALSE]

\* records of two targets and two instruments, with and without wavelength
\* bounds and resolving power, one identifier holding the separator
SourceMetadatas ==
    {SourceMetadata(<<"a">>, "HD1", "UVES", Some(400), Some(500),
                    [is_none |-> FALSE, value |-> Frac(40000, 1)]),
     SourceMetadata(<<"b">>, "HD2", "HARPS", Some(450), Some(600),
                    [is_none |-> FALSE, value |-> Frac(50001, 1)]),
     SourceMetadata(<<"a", "+", "b">>, "HD1", "HARPS", None, None, NoFloat),
     SourceMetadata(<<"c">>, "HD2", "UVES", Some(300), None,
                    [is_none |-> FALSE, value |-> Frac(30000, 1)])}

\* the data of a source: samples in order, samples moved by 1 nm, no samples
SourceData ==
    {ASpectrum(Ramp(Nm(500), Nm(1), 3), <<FluxUnit, 3 * FluxUnit, 2 * FluxUnit>>),
     ASpectrum(Ramp(Nm(501), Nm(1), 3), <<3 * FluxUnit, 2 * FluxUnit, 2 * FluxUnit>>),
     ASpectrum(<<>>, <<>>)}

Sources ==
    {[metadata |-> m, wavelength |-> d.wavelength, flux |-> d.flux, flux_err |-> NoArray] :
        m \in SourceMetadatas, d \in SourceData}

\* lists aligned in the rest frame are one shorter: each member costs 122 scores
ServiceCalls ==
    [spectra : SeqsUpTo(Sources, MaxSources), rest_frame : {FALSE}]
    \cup [spectra : SeqsUpTo(Sources, MaxSources - 1), rest_frame : {TRUE}]

InitService ==
    /\ \E c \in ServiceCalls :
        /\ sv_spectra = c.spectra
        /\ sv_rest_frame = c.rest_frame
    /\ sv_pc = "call"
    /\ sv_ret = <<>>
    /\ RebinIdle
    /\ EstIdle
    /\ CombIdle
    /\ SnrIdle
    /\ VelocityIdle
    /\ StorageIdle
    /\ GuiIdle

ServiceCombineReturn ==
    /\ sv_pc = "call"
    /\ \E r \in {combine(sv_spectra, sv_rest_frame)} :
          r.kind = "return" /\ sv_ret' = r.value
    /\ sv_pc' = "return"
    /\ UNCHANGED <<sv_spectra, sv_rest_frame>>
    /\ UNCHANGED <<rb_vars, es_vars, cb_vars, sn_vars, rv_vars, st_vars, gui_vars>>

ServiceCombineRaise ==
    /\ sv_pc = "call"
    /\ \E r \in {combine(sv_spectra, sv_rest_frame)} :
          r.kind = "raise" /\ sv_ret' = r.value
    /\ sv_pc' = "raise"
    /\ UNCHANGED <<sv_spectra, sv_rest_frame>>
    /\ UNCHANGED <<rb_vars, es_vars, cb_vars, sn_vars, rv_vars, st_vars, gui_vars>>

NextService == ServiceCombineReturn \/ ServiceCombineRaise

SpecService == InitService /\ [][NextService]_vars

---------------------------------------------------------------------------
(* Storage: the arrays each call shares, allocates and writes.  The heap is
   the sequence of the objects alive, an address is a position in it. *)

\* an object: a float64 ndarray, or a sequence (a list, an integer array)
\* that np.asarray(..., dtype=float) has to convert
Cell(isarr, d) == [is_array |-> isarr, data |-> d]

\* a newly allocated float array, at the next free address
Store(h, d) == [heap |-> Append(h, Cell(TRUE, d)), addr |-> Len(h) + 1]

\* np.asarray(a, dtype=float): a itself when it is a float array, a
\* converted copy otherwise
AsArray(h, a) ==
    IF h[a].is_array THEN [heap |-> h, addr |-> a] ELSE Store(h, h[a].data)

\* the elements of a put in the given order within a itself
Index_InPlace(h, a, order) ==
    [heap |-> [h EXCEPT ![a].data = Take(@, order)], addr |-> a]

\* a[order] with an index or mask array: a copy
Index(h, a, order) == Store(h, Take(h[a].data, order))

\* a -= c: written into a
ISub(h, a, c) == [h EXCEPT ![a].data = Subtract(@, c)]

\* accum[valid] += rebinned[valid]: written into accum
IAddValid(h, a, reb) ==
    [h EXCEPT ![a].data =
        Seq1([i \in 1..Len(@) |-> IF IsFinite(reb[i]) THEN @[i] + reb[i] ELSE @[i]])]

\* weights[valid] += 1.0: written into weights
ICountValid(h, a, reb) ==
    [h EXCEPT ![a].data =
        Seq1([i \in 1..Len(@) |-> IF IsFinite(reb[i]) THEN @[i] + 1 ELSE @[i]])]

\* x = x[order]; y = y[order] (lines 33-35): the heap and the two new arrays
St_sorted(h, ax, ay) ==
    Only({Only({Only({[heap |-> y3.heap, x |-> x3.addr, y |-> y3.addr] :
        y3 \in {Index(x3.heap, ay, order)}}) :
        x3 \in {Index(h, ax, order)}}) :
        order \in {ArgSort(h[ax].data)}})

\* rebin_linear on the heap, for one-dimensional inputs of equal length: the
\* heap after the call and the address of the array returned
St_rebin_linear(h, ax, ay, anew_x, fill) ==
    Only({Only({Only({Only({Only({
        Store(s.heap, np_interp(Arr1(s.heap[n1.addr].data), s.heap[s.x].data,
                                s.heap[s.y].data, fill, fill).value.data) :
        s \in {IF StrictlyIncreasing(y2.heap[x1.addr].data)
               THEN [heap |-> y2.heap, x |-> x1.addr, y |-> y2.addr]
               ELSE St_sorted(y2.heap, x1.addr, y2.addr)}}) :
        y2 \in {IF AllFinite(n1.heap[y1.addr].data)
                THEN [heap |-> n1.heap, addr |-> y1.addr]
                ELSE Store(n1.heap, ReplaceNonFinite(n1.heap[y1.addr].data, fill))}}) :
        n1 \in {AsArray(y1.heap, anew_x)}}) :
        y1 \in {AsArray(x1.heap, ay)}}) :
        x1 \in {AsArray(h, ax)}})

\* one call of score: its arrays are released when it returns
St_score(h, aw, af, agrid, shift_nm) ==
    Only({Only({
        SubSeq(ISub(shifted.heap, shifted.addr, Median(shifted.heap[shifted.addr].data)),
               1, Len(h)) :
        shifted \in {St_rebin_linear(sw.heap, sw.addr, af, agrid, 0)}}) :
        sw \in {Store(h, ShiftedWave(h[aw].data, shift_nm))}})

RECURSIVE St_scores(_, _, _, _, _, _, _)
\* [score(s) for s in shifts], from the lo-th to the hi-th in order
St_scores(h, aw, af, agrid, shifts, lo, hi) ==
    IF lo > hi THEN h
    ELSE IF lo = hi THEN St_score(h, aw, af, agrid, shifts[lo])
    ELSE Only({St_scores(h0, aw, af, agrid, shifts, (lo + hi) \div 2 + 1, hi) :
                h0 \in {St_scores(h, aw, af, agrid, shifts, lo, (lo + hi) \div 2)}})

\* lines 48-57 on the heap h1, the inputs as they were in h
St_search(h, h1, arw, arf, aw, af, w1, f1, grid, window) ==
    Only({Only({
        St_scores(h2, w1, f1, grid, FineShifts(best_shift_nm, window), 1, FineCount) :
        best_shift_nm \in {CoarseShifts(window)[ArgMax(Values(Scores(h[arw].data, h[arf].data,
                                h[aw].data, h[af].data, CoarseShifts(window))))]}}) :
        h2 \in {St_scores(h1, w1, f1, grid, CoarseShifts(window), 1, CoarseCount)}})

\* lines 37-57 on the heap
St_correlate(h, h0, arw, arf, aw, af, w1, f1, grid, rf2) ==
    Only({Only({
        IF AllClose0(h1[ref_resampled.addr].data) THEN h1
        ELSE St_search(h, h1, arw, arf, aw, af, w1, f1, grid, Window(Span(h1[grid].data))) :
        h1 \in {ISub(ref_resampled.heap, ref_resampled.addr,
                     Median(ref_resampled.heap[ref_resampled.addr].data))}}) :
        ref_resampled \in {AsArray(h0, rf2)}})

\* estimate_shift_nm on the heap: the heap after the call, its own arrays released
St_estimate_shift_nm(h, arw, arf, aw, af) ==
    Only({Only({Only({Only({Only({Only({Only({
        SubSeq(IF Span(rf2.heap[grid.addr].data) <= 0 THEN rf2.heap
               ELSE St_correlate(h, rf2.heap, arw, arf, aw, af,
                                 w1.addr, f1.addr, grid.addr, rf2.addr),
               1, Len(h)) :
        rf2 \in {Index(grid.heap, rf1.addr, sort_idx)}}) :
        grid \in {Index(f1.heap, rw1.addr, sort_idx)}}) :
        sort_idx \in {ArgSort(f1.heap[rw1.addr].data)}}) :
        f1 \in {AsArray(w1.heap, af)}}) :
        w1 \in {AsArray(rf1.heap, aw)}}) :
        rf1 \in {AsArray(rw1.heap, arf)}}) :
        rw1 \in {AsArray(h, arw)}})

\* lines 53-56: the heap and the address of wave once the shift is applied
St_aligned(h, rf, ref_wave, ref_f, wave, flx) ==
    IF rf
    THEN Only({Store(h1, ShiftedWave(h1[wave].data,
                        estimate_shift_nm(h1[ref_wave].data, h1[ref_f].data,
                                          h1[wave].data, h1[flx].data).value)) :
                h1 \in {St_estimate_shift_nm(h, ref_wave, ref_f, wave, flx)}})
    ELSE [heap |-> h, addr |-> wave]

RECURSIVE St_combine_loop(_, _, _, _, _, _, _)
\* the first k passes of the loop of combine_spectra over the pairs of
\* addresses sps: the heap after them
St_combine_loop(h, sps, rf, ref_wave, accum, weights, k) ==
    IF k = 0 THEN h
    ELSE Only({Only({Only({Only({Only({
        ICountValid(IAddValid(rebinned.heap, accum, rebinned.heap[rebinned.addr].data),
                    weights, rebinned.heap[rebinned.addr].data) :
        rebinned \in {St_rebin_linear(moved.heap, moved.addr, flx.addr, ref_wave, 0)}}) :
        moved \in {St_aligned(flx.heap, rf, ref_wave, sps[1].flux, wave.addr, flx.addr)}}) :
        flx \in {AsArray(wave.heap, sps[k].flux)}}) :
        wave \in {AsArray(h0, sps[k].wavelength)}}) :
        h0 \in {St_combine_loop(h, sps, rf, ref_wave, accum, weights, k - 1)}})

\* combine_spectra on the heap, for a non-empty list of one-dimensional
\* spectra: the heap after the call and the addresses of the result's arrays
St_combine_spectra(h, sps, rf) ==
    Only({Only({Only({Only({Only({
        [heap |-> combined.heap, wavelength |-> ref_wave.addr, flux |-> combined.addr] :
        combined \in {Store(h1, Average(h1[accum.addr].data, h1[weights.addr].data))}}) :
        h1 \in {St_combine_loop(weights.heap, sps, rf, ref_wave.addr, accum.addr,
                                weights.addr, Len(sps))}}) :
        weights \in {Store(accum.heap, accum.heap[accum.addr].data)}}) :
        accum \in {Store(ref_wave.heap,
                         Seq1([i \in 1..Len(ref_wave.heap[ref_wave.addr].data) |-> 0]))}}) :
        ref_wave \in {AsArray(h, sps[1].wavelength)}})

\* SpectrumCombiner.combine on the heap: the arrays of the SpectrumData returned
St_combine(h, sps, rf) ==
    Only({Only({
        [heap |-> flx.heap, wavelength |-> combo.wavelength, flux |-> flx.addr] :
        flx \in {AsArray(combo.heap, combo.flux)}}) :
        combo \in {St_combine_spectra(h, sps, rf)}})

\* lines 88-94 on the heap: flux[valid], err[valid] and the ratio
St_ratio(h, flx, err, valid) ==
    IF Len(valid) = 0 THEN h
    ELSE Only({Only({
        Store(ev.heap, Seq1([r \in 1..Len(valid) |->
                    AbsRatio(ev.heap[fv.addr].data[r], ev.heap[ev.addr].data[r])])).heap :
        ev \in {Index(fv.heap, err, valid)}}) :
        fv \in {Index(h, flx, valid)}})

\* lines 86-94 on the heap: flux[mask], err[mask] and what follows
St_masked(h, self, mask) ==
    IF Len(mask) = 0 THEN h
    ELSE Only({Only({Only({
        St_ratio(err.heap, flx.addr, err.addr, valid) :
        valid \in {MaskIndices({r \in 1..Len(mask) :
                        /\ IsFinite(err.heap[flx.addr].data[r])
                        /\ IsFinite(err.heap[err.addr].data[r])
                        /\ err.heap[err.addr].data[r] > 0
                        /\ err.heap[flx.addr].data[r] # 0})}}) :
        err \in {Index(flx.heap, self.flux_err, mask)}}) :
        flx \in {Index(h, self.flux, mask)}})

\* SpectrumData.measure_snr on the heap: the heap after the call, its own
\* arrays released
St_measure_snr(h, self, win) ==
    IF Len(h[self.wavelength].data) = 0 \/ self.flux_err = 0 THEN h
    ELSE Only({SubSeq(St_masked(h, self, mask), 1, Len(h)) :
                mask \in {MaskIndices({i \in 1..Len(h[self.wavelength].data) :
                                        InWindow(h[self.wavelength].data[i], win)})}})

---------------------------------------------------------------------------
(* Inputs and steps of the storage specification *)

StWave == Ramp(Nm(500), Nm(1), 3)
StFlux == <<FluxUnit, 3 * FluxUnit, 2 * FluxUnit>>

\* the objects a caller holds, as float arrays and as plain sequences
WaveCells == {Cell(a, d) : a \in BOOLEAN, d \in {StWave, <<Nm(502), Nm(500), Nm(501)>>}}
FluxCells == {Cell(a, d) : a \in BOOLEAN, d \in {StFlux, <<FluxUnit, NaN, 2 * FluxUnit>>}}
FiniteFluxCells == {Cell(a, StFlux) : a \in BOOLEAN}
OtherWaveCells == {Cell(a, Offset(StWave, 96)) : a \in BOOLEAN}
NewCells == {Cell(a, <<Nm(500) + 80, Nm(502)>>) : a \in BOOLEAN}
ErrCells == {Cell(TRUE, <<4, 0, NaN>>)}

StCall(fn, h, objs, rf) == [fn |-> fn, heap |-> h, objs |-> objs, rest_frame |-> rf]

\* rebin_linear(x, y, new_x, fill_value=-1): new_x an object of its own, or x again
StRebinCalls ==
    {StCall("rebin_linear", <<cx, cy, cn>>, <<1, 2, 3>>, FALSE) :
        cx \in WaveCells, cy \in FluxCells, cn \in NewCells}
    \cup {StCall("rebin_linear", <<cx, cy>>, <<1, 2, 1>>, FALSE) :
        cx \in WaveCells, cy \in FluxCells}

\* estimate_shift_nm(ref_wavelength, ref_flux, wavelength, flux): the other
\* spectrum objects of its own, or the reference again
StEstimateCalls ==
    {StCall("estimate_shift_nm", <<cw, cf, ow, of>>, <<1, 2, 3, 4>>, FALSE) :
        cw \in WaveCells, cf \in FiniteFluxCells, ow \in OtherWaveCells, of \in FiniteFluxCells}
    \cup {StCall("estimate_shift_nm", <<cw, cf>>, <<1, 2, 1, 2>>, FALSE) :
        cw \in WaveCells, cf \in FiniteFluxCells}

\* lists of one spectrum, of the same spectrum twice, and of two spectra
StCombineLists ==
    {[heap |-> <<cw, cf>>, objs |-> <<1, 2>>] : cw \in WaveCells, cf \in FiniteFluxCells}
    \cup {[heap |-> <<cw, cf>>, objs |-> <<1, 2, 1, 2>>] :
            cw \in WaveCells, cf \in FiniteFluxCells}
    \cup {[heap |-> <<cw, cf, ow, Cell(TRUE, StFlux)>>, objs |-> <<1, 2, 3, 4>>] :
            cw \in WaveCells, cf \in FiniteFluxCells, ow \in OtherWaveCells}

StCombineCalls ==
    {StCall(fn, l.heap, l.objs, rf) :
        fn \in {"combine_spectra", "SpectrumCombiner.combine"},
        l \in StCombineLists, rf \in BOOLEAN}

\* measure_snr of a SpectrumData with and without flux_err (address 0: None)
StSnrCalls ==
    {StCall("measure_snr", <<cw, cf, ce>>, <<1, 2, e>>, FALSE) :
        cw \in {c \in WaveCells : c.is_array}, cf \in {c \in FluxCells : c.is_array},
        ce \in ErrCells, e \in {0, 3}}

StorageCalls == StRebinCalls \cup StEstimateCalls \cup StCombineCalls \cup StSnrCalls

\* the (wavelength, flux) pairs of the list handed to the combiner
StPairs(objs) ==
    [k \in 1..(Len(objs) \div 2) |-> [wavelength |-> objs[2 * k - 1], flux |-> objs[2 * k]]]

InitStorage ==
    /\ \E c \in StorageCalls :
        /\ st_fn = c.fn
        /\ st_args = [objs |-> c.objs, rest_frame |-> c.rest_frame]
        /\ st_heap = c.heap
        /\ st_before = c.heap
    /\ st_after = <<>>
    /\ st_pc = "call"
    /\ st_ret = <<>>
    /\ st_target = "none"
    /\ RebinIdle
    /\ EstIdle
    /\ CombIdle
    /\ SnrIdle
    /\ VelocityIdle
    /\ ServiceIdle
    /\ GuiIdle

\* the call returns: h is the heap it leaves, ret the addresses of the arrays returned
StReturn(h, ret) ==
    /\ st_heap' = h
    /\ st_after' = h
    /\ st_ret' = ret
    /\ st_pc' = "return"
    /\ UNCHANGED <<st_fn, st_args, st_before, st_target>>
    /\ UNCHANGED <<rb_vars, es_vars, cb_vars, sn_vars, rv_vars, sv_vars, gui_vars>>

StRebin ==
    /\ st_pc = "call" /\ st_fn = "rebin_linear"
    /\ \E r \in {St_rebin_linear(st_heap, st_args.objs[1], st_args.objs[2],
                                 st_args.objs[3], 0 - FluxUnit)} :
          StReturn(r.heap, <<r.addr>>)

StEstimate ==
    /\ st_pc = "call" /\ st_fn = "estimate_shift_nm"
    /\ \E h \in {St_estimate_shift_nm(st_heap, st_args.objs[1], st_args.objs[2],
                                      st_args.objs[3], st_args.objs[4])} :
          StReturn(h, <<>>)

StCombineSpectra ==
    /\ st_pc = "call" /\ st_fn = "combine_spectra"
    /\ \E r \in {St_combine_spectra(st_heap, StPairs(st_args.objs), st_args.rest_frame)} :
          StReturn(r.heap, <<r.wavelength, r.flux>>)

StServiceCombine ==
    /\ st_pc = "call" /\ st_fn = "SpectrumCombiner.combine"
    /\ \E r \in {St_combine(st_heap, StPairs(st_args.objs), st_args.rest_frame)} :
          StReturn(r.heap, <<r.wavelength, r.flux>>)

StMeasureSnr ==
    /\ st_pc = "call" /\ st_fn = "measure_snr"
    /\ \E h \in {St_measure_snr(st_heap,
                    [wavelength |-> st_args.objs[1], flux |-> st_args.objs[2],
                     flux_err |-> st_args.objs[3]], <<Nm(500), Nm(501)>>)} :
          StReturn(h, <<>>)

\* after a combination the caller writes the first element of an array it
\* holds: the result's wavelength, or the wavelength it passed as the reference
StCallerWrite ==
    /\ st_pc = "return"
    /\ st_fn \in {"combine_spectra", "SpectrumCombiner.combine"}
    /\ \E t \in {"result", "input"} :
        /\ st_target' = t
        /\ st_heap' = [st_heap EXCEPT
                ![IF t = "result" THEN st_ret[1] ELSE st_args.objs[1]].data[1] = @ + 1]
    /\ st_pc' = "written"
    /\ UNCHANGED <<st_fn, st_args, st_before, st_after, st_ret>>
    /\ UNCHANGED <<rb_vars, es_vars, cb_vars, sn_vars, rv_vars, sv_vars, gui_vars>>

NextStorage ==
    \/ StRebin
    \/ StEstimate
    \/ StCombineSpectra
    \/ StServiceCombine
    \/ StMeasureSnr
    \/ StCallerWrite

SpecStorage == InitStorage /\ [][NextStorage]_vars

---------------------------------------------------------------------------
(* Claims about the shift estimator, checked under SpecShift *)

\* the reference has at least 2 points, a positive span, and a flux that is
\* not flat
NonDegenerateRef ==
    /\ Len(ref_wavelength) >= 2
    /\ MaxOf(ref_wavelength) - MinOf(ref_wavelength) > 0
    /\ \E i \in 1..Len(ref_flux) : ref_flux[i] # Median(ref_flux)

\* max(0.5, 0.05 * span) of the reference, in ticks
CoarseWindow ==
    Max(TicksPerNm \div 2, (MaxOf(ref_wavelength) - MinOf(ref_wavelength)) \div 20)

\* C1 as claimed: the magnitude of the returned shift never exceeds the coarse
\* window max(0.5, 0.05*span).
C1_Original ==
    (es_pc = "done" /\ NonDegenerateRef) => Abs(es_ret) <= CoarseWindow

\* C1 as amended: the coarse argmax lies within the coarse window, and the
\* returned shift lies within window/4 of the coarse argmax, so its magnitude
\* never exceeds 1.25 times the coarse window.
C1_ShiftWithinFineReach ==
    (es_pc = "done" /\ NonDegenerateRef) =>
        /\ Abs(best_shift) <= CoarseWindow
        /\ 4 * Abs(es_ret - best_shift) <= CoarseWindow
        /\ 4 * Abs(es_ret) <= 5 * CoarseWindow

\* the coarse argmax is the last coarse candidate and the fine search, centred
\* there, returns a shift beyond the coarse window
C1_Witness ==
    /\ es_pc = "done"
    /\ NonDegenerateRef
    /\ best_shift = CoarseWindow
    /\ es_ret > CoarseWindow

SelfAligned == wavelength = ref_wavelength /\ flux = ref_flux

\* C2 as claimed: a non-degenerate spectrum aligned against itself gets shift 0.
C2_SelfShiftZero ==
    (es_pc = "done" /\ NonDegenerateRef /\ SelfAligned) => es_ret = 0

\* the spec's scenario: 500..509 nm, one spike at 505 nm, the other spectrum
\* the same flux on wavelengths 0.6 nm (96 ticks) higher
SpikeScenario ==
    /\ ref_wavelength = Ramp(Nm(500), Nm(1), 10)
    /\ Len(ref_flux) = 10
    /\ \A i \in 1..10 : i # 6 => ref_flux[i] = ref_flux[1]
    /\ ref_flux[6] > ref_flux[1]
    /\ wavelength = Offset(ref_wavelength, 96)
    /\ flux = ref_flux

\* C3: in the spike scenario the returned shift is within window/4/20 of 0.6 nm.
C3_SpikeShiftRecovered ==
    (es_pc = "done" /\ SpikeScenario) => 80 * Abs(es_ret - 96) <= CoarseWindow

C3_Witness ==
    /\ es_pc = "done"
    /\ SpikeScenario
    /\ evals = CoarseCount + FineCount
    /\ es_ret = 96

\* C4: a reference with fewer than 2 points, a span <= 0 or a flat flux gives
\* exactly 0 with no score evaluated, whatever the other spectrum holds.
C4_DegenerateReturnsZero ==
    (es_pc # "call" /\ ~NonDegenerateRef) =>
        (es_pc = "done" /\ es_ret = 0 /\ evals = 0
            /\ coarse_scores = <<>> /\ fine_scores = <<>>)

\* a zero-span reference with a flux that is not flat, and another spectrum
\* that holds samples
C4_Witness ==
    /\ es_pc = "done"
    /\ Len(ref_wavelength) = 2
    /\ ref_wavelength[1] = ref_wavelength[2]
    /\ ref_flux[1] # ref_flux[2]
    /\ Len(wavelength) > 0
    /\ evals = 0 /\ es_ret = 0

\* C5 as claimed (its count): a finished call on a non-degenerate reference
\* has performed exactly 122 resample evaluations.
C5_Original ==
    (es_pc \in {"done", "raise"} /\ NonDegenerateRef) => (es_pc = "done" /\ evals = 122)

C5_Counts ==
    /\ (es_pc = "done" /\ NonDegenerateRef /\ Len(wavelength) > 0) => evals = 122
    /\ (es_pc = "raise") => (Len(wavelength) = 0 /\ evals = 1)
    /\ evals <= 122
    /\ (es_pc = "coarse") => (evals = Len(coarse_scores) /\ evals <= 81 /\ fine_scores = <<>>)
    /\ (es_pc = "fine") => (Len(coarse_scores) = 81 /\ evals = 81 + Len(fine_scores)
                              /\ Len(fine_scores) <= 41)
    /\ LET k == Len(coarse_scores) IN
          (es_pc = "coarse" /\ k > 0) =>
              score(ref_wavelength, ref_flux, wavelength, flux,
                    (k - 41) * (CoarseWindow \div 40)) = Return(coarse_scores[k])
    /\ LET k == Len(fine_scores) IN
          (es_pc = "fine" /\ k > 0) =>
              score(ref_wavelength, ref_flux, wavelength, flux,
                    best_shift + (k - 21) * (CoarseWindow \div 80)) = Return(fine_scores[k])

StageRank ==
    CASE es_pc = "call" -> 0
      [] es_pc = "coarse" -> 1
      [] es_pc = "fine" -> 2
      [] OTHER -> 3

\* every step moves the call to a later stage or evaluates one more score
C5_Advances ==
    \/ StageRank' > StageRank /\ evals' \in {evals, evals + 1}
    \/ StageRank' = StageRank /\ evals' = evals + 1

\* C5 as amended: every call ends (each step moves to a later stage or
\* evaluates one more score, and no call evaluates more than 122); on a
\* non-degenerate reference and a spectrum that holds samples it performs
\* exactly 122 resample evaluations, the 81 coarse ones, evenly spaced over
\* [-window, window], all before the first of the 41 fine ones; on a spectrum
\* with no samples the first evaluation raises.
C5_TerminatesAfter122 ==
    /\ []C5_Counts
    /\ [][C5_Advances]_vars

C5_Witness ==
    /\ es_pc = "done"
    /\ NonDegenerateRef
    /\ evals = 122
    /\ Len(coarse_scores) = 81 /\ Len(fine_scores) = 41

---------------------------------------------------------------------------
(* Claims about the resampler, checked under SpecRebin *)

OneDimensionalXY == x.ndim = 1 /\ y.ndim = 1 /\ Size(x) = Size(y)

SameGridCase ==
    /\ OneDimensionalXY
    /\ new_x = x
    /\ StrictlyIncreasing(x.data)
    /\ AllFinite(y.data)

\* C6 as claimed: rebin(x, y, x) returns y element by element for every strictly
\* increasing x and every finite y of the same length.
C6_Original ==
    (rb_pc # "call" /\ SameGridCase) => (rb_pc = "return" /\ rb_ret = y)

\* C6 as amended: rebin(x, y, x) returns y element by element for every non-empty
\* strictly increasing x and every finite y of the same length.
C6_SameGridReproducesY ==
    (rb_pc # "call" /\ SameGridCase /\ Size(x) > 0) => (rb_pc = "return" /\ rb_ret = y)

C6_Witness ==
    /\ rb_pc = "return"
    /\ SameGridCase
    /\ Size(x) = 3
    /\ y.data[1] # y.data[2]
    /\ rb_ret = y

\* C7: every point of new_x strictly outside [min(x), max(x)] gets exactly
\* fill_value, sorted x or not, and every point inside gets the linear
\* interpolation of its two neighbouring samples (non-finite samples taken as
\* fill_value, and the interpolation of a non-finite value being non-finite).
C7_FillOutsideInterpolateInside ==
    (rb_pc = "return" /\ OneDimensionalXY) =>
        LET yf == ReplaceNonFinite(y.data, fill_value)
            n == Size(x)
        IN \A i \in 1..Size(new_x) :
            LET t == new_x.data[i] IN
            IF t < MinOf(x.data) \/ t > MaxOf(x.data)
            THEN rb_ret.data[i] = fill_value
            ELSE \E a, b \in 1..n :
                    /\ x.data[a] <= t /\ t <= x.data[b]
                    /\ \A c \in 1..n : ~(x.data[a] < x.data[c] /\ x.data[c] < x.data[b])
                    /\ (a # b \/ n = 1 \/ t = x.data[a])
                    /\ IF a = b THEN rb_ret.data[i] = yf[a]
                       ELSE IF ~IsFinite(yf[a]) \/ ~IsFinite(yf[b])
                       THEN ~IsFinite(rb_ret.data[i])
                       ELSE rb_ret.data[i] * (x.data[b] - x.data[a])
                              = yf[a] * (x.data[b] - t) + yf[b] * (t - x.data[a])

C7_Witness ==
    /\ rb_pc = "return"
    /\ OneDimensionalXY
    /\ ~StrictlyIncreasing(x.data)
    /\ fill_value # 0
    /\ Size(new_x) = 2
    /\ new_x.data[1] > MaxOf(x.data)
    /\ rb_ret.data[1] = fill_value
    /\ new_x.data[2] > MinOf(x.data) /\ new_x.data[2] < MaxOf(x.data)
    /\ new_x.data[2] \notin {x.data[i] : i \in 1..Size(x)}
    /\ rb_ret.data[2] # fill_value

\* C8: for pairwise distinct x, applying one permutation to x and y does not
\* change the output, whatever new_x is: the call made on the samples in any
\* order returns what the call on the same samples sorted by x returns.
C8_OrderIndependent ==
    (rb_pc = "return" /\ OneDimensionalXY /\ Distinct(x.data)) =>
        \E p \in {ArgSort(x.data)} :
            rebin_linear(Arr1(Take(x.data, p)), Arr1(Take(y.data, p)), new_x, fill_value)
                = Return(rb_ret)

C8_Witness ==
    /\ rb_pc = "return"
    /\ OneDimensionalXY
    /\ Size(x) = 3
    /\ x.data[1] > x.data[2]
    /\ y.data[1] # y.data[2] /\ AllFinite(y.data)
    /\ Size(new_x) > 0
    /\ new_x.data[1] > MinOf(x.data) /\ new_x.data[1] < MaxOf(x.data)
    /\ new_x.data[1] \notin {x.data[i] : i \in 1..Size(x)}

\* C9 as claimed: rebin fails with an input error whenever x or y is not
\* one-dimensional, x and y differ in length, or new_x is not one-dimensional.
C9_InputErrors ==
    (rb_pc # "call" /\ (x.ndim # 1 \/ y.ndim # 1 \/ Size(x) # Size(y) \/ new_x.ndim # 1))
        => rb_pc = "raise"

---------------------------------------------------------------------------
(* Claims about the combiner, checked under SpecCombine *)

\* a wavelength or flux sequence that is not one-dimensional, or unequal lengths
WrongShape(sp) ==
    sp.wavelength.ndim # 1 \/ sp.flux.ndim # 1 \/ Size(sp.wavelength) # Size(sp.flux)

\* the call combines N >= 1 copies of one spectrum on the first one's grid,
\* without alignment
CopiesOfOne ==
    /\ Len(spectra) >= 1
    /\ \A k \in 1..Len(spectra) : spectra[k] = spectra[1]
    /\ reference_index = 0
    /\ rest_frame = FALSE

\* the result is the grid of the first spectrum, its flux at every grid point
\* and one zero shift for each input
ReturnsTheSpectrum ==
    /\ cb_pc = "return"
    /\ cb_ret.wavelength = spectra[1].wavelength.data
    /\ Len(cb_ret.flux) = Size(spectra[1].flux)
    /\ \A i \in 1..Len(cb_ret.flux) : cb_ret.flux[i] = Frac(spectra[1].flux.data[i], 1)
    /\ cb_ret.shifts_applied_nm = Seq1([k \in 1..Len(spectra) |-> 0])

\* C10 as claimed: combining N >= 1 copies of a spectrum s with
\* reference_index=0 and rest_frame=False returns the grid of s, the flux of s
\* at every grid point and N zero shifts.
C10_Original ==
    (cb_pc # "call" /\ CopiesOfOne) => ReturnsTheSpectrum

\* C10 as amended: combining N >= 1 copies of a spectrum s that has
\* one-dimensional wavelength and flux of one length, at least one sample,
\* pairwise distinct wavelengths and only finite flux values, with
\* reference_index=0 and rest_frame=False, returns the grid of s, the flux of s
\* at every grid point and N zero shifts.
C10_CopiesAverageToSelf ==
    (/\ cb_pc # "call"
     /\ CopiesOfOne
     /\ ~WrongShape(spectra[1])
     /\ Size(spectra[1].wavelength) >= 1
     /\ Distinct(spectra[1].wavelength.data)
     /\ AllFinite(spectra[1].flux.data)) => ReturnsTheSpectrum

\* three copies of a spectrum given out of wavelength order average to it
C10_Witness ==
    /\ cb_pc = "return"
    /\ CopiesOfOne
    /\ Len(spectra) = 3
    /\ ~StrictlyIncreasing(spectra[1].wavelength.data)
    /\ Distinct(spectra[1].wavelength.data)
    /\ AllFinite(spectra[1].flux.data)
    /\ ReturnsTheSpectrum

\* C11 as claimed: combine returns one shift per input spectrum, in input order,
\* and the shift recorded for the spectrum at reference_index is 0, with
\* rest_frame=False and with rest_frame=True.
C11_ReferenceShiftZero ==
    cb_pc = "return" =>
        /\ Len(cb_ret.shifts_applied_nm) = Len(spectra)
        /\ cb_ret.shifts_applied_nm[ListIndex(Len(spectra), reference_index)] = 0


\* the wavelengths of input k as resampled: moved by the shift recorded for it
AppliedWave(k) == ShiftedWave(spectra[k].wavelength.data, cb_ret.shifts_applied_nm[k])

\* the grid point i lies in the wavelength domain of input k
Covers(k, i) ==
    /\ Size(spectra[k].wavelength) > 0
    /\ cb_ret.wavelength[i] >= MinOf(AppliedWave(k))
    /\ cb_ret.wavelength[i] <= MaxOf(AppliedWave(k))

\* what input k adds at grid point i: its resampled value where it covers the
\* point, 0 elsewhere
Contribution(k, i) ==
    IF Covers(k, i)
    THEN rebin_linear(Arr1(AppliedWave(k)), spectra[k].flux,
                      Arr1(<<cb_ret.wavelength[i]>>), 0).value.data[1]
    ELSE 0

RECURSIVE ContributionSum(_, _)
ContributionSum(i, k) ==
    IF k = 0 THEN 0 ELSE ContributionSum(i, k - 1) + Contribution(k, i)

\* C13: at every grid point the combined flux is the sum of the inputs'
\* resampled values divided by max(count, 1); every input is counted, and one
\* that does not cover the point adds 0, so a point covered by k of N inputs has
\* the sum of those k values divided by N and a point covered by none has 0.
C13_SumOverCount ==
    cb_pc = "return" =>
        \A i \in 1..Len(cb_ret.flux) :
            /\ cb_ret.flux[i] = Frac(ContributionSum(i, Len(spectra)), Max(Len(spectra), 1))
            /\ (\A k \in 1..Len(spectra) : ~Covers(k, i)) => cb_ret.flux[i] = Frac(0, 1)

\* of three inputs one does not cover a grid point where the others are not 0
C13_Witness ==
    /\ cb_pc = "return"
    /\ Len(spectra) = 3
    /\ \E i \in 1..Len(cb_ret.flux) :
          /\ \E k \in 1..3 : ~Covers(k, i)
          /\ \E k \in 1..3 : Covers(k, i)
          /\ ContributionSum(i, 3) > 0
          /\ cb_ret.flux[i] = Frac(ContributionSum(i, 3), 3)


\* C14: combine fails and returns no result when the list is empty or any input
\* spectrum has a wavelength or flux that is not one-dimensional or lengths that
\* differ, wherever the offending spectrum stands in the list; the call is one
\* step and is not taken again.
C14_InputErrors ==
    (cb_pc # "call" /\ (Len(spectra) = 0 \/ \E k \in 1..Len(spectra) : WrongShape(spectra[k])))
        => /\ cb_pc = "raise"
           /\ cb_ret \in {"ValueError: No spectra provided",
                          "IndexError: list index out of range",
                          "ValueError: Wavelength arrays must be one-dimensional",
                          "ValueError: Wavelength and flux arrays must be one-dimensional",
                          "ValueError: Wavelength and flux arrays must match in length",
                          "ValueError: array of sample points is empty"}
           /\ ~ENABLED NextCombine

\* the offending spectrum is the last of three, after two that are in order
C14_Witness ==
    /\ cb_pc = "raise"
    /\ Len(spectra) = 3
    /\ ~WrongShape(spectra[1]) /\ ~WrongShape(spectra[2])
    /\ Size(spectra[1].wavelength) > 0 /\ Size(spectra[2].wavelength) > 0
    /\ Size(spectra[3].wavelength) # Size(spectra[3].flux)
    /\ reference_index = 0
    /\ cb_ret = "ValueError: Wavelength and flux arrays must match in length"


---------------------------------------------------------------------------
(* Claims about non-finite samples, checked under SpecRebinCombine *)

\* y with each non-finite value replaced by v
Cleaned(ydata, v) == Seq1([i \in 1..Len(ydata) |-> IF IsFinite(ydata[i]) THEN ydata[i] ELSE v])

\* the points of new_x inside [min(x), max(x)] have finite values in the result
FiniteInside ==
    \A i \in 1..Size(new_x) :
        (new_x.data[i] >= MinOf(x.data) /\ new_x.data[i] <= MaxOf(x.data))
            => IsFinite(rb_ret.data[i])

\* the result is that of resampling y with the caller's fill value for each
\* non-finite sample
ReplacedByFill ==
    Return(rb_ret) = rebin_linear(x, Arr1(Cleaned(y.data, fill_value)), new_x, fill_value)

\* the spectra with each non-finite flux sample replaced by 0
CleanedSpectra ==
    Seq1([k \in 1..Len(spectra) |->
            [wavelength |-> spectra[k].wavelength,
             flux |-> Arr(spectra[k].flux.ndim, Cleaned(spectra[k].flux.data, 0))]])

\* the combination is that of the spectra with 0 for each non-finite flux
\* sample, every input counted at every grid point
NonFiniteEntersAsZero ==
    /\ Return(cb_ret) = combine_spectra(CleanedSpectra, reference_index, rest_frame)
    /\ \A i \in 1..Len(cb_ret.flux) :
          cb_ret.flux[i] = Frac(ContributionSum(i, Len(spectra)), Len(spectra))

---------------------------------------------------------------------------
(* Claims about the signal-to-noise measurement, checked under SpecSnr *)

\* the samples in the closed window with finite flux, finite uncertainty,
\* uncertainty > 0 and flux # 0
Survivors ==
    IF sn_self.flux_err.is_none THEN {}
    ELSE {i \in 1..Len(sn_self.wavelength) :
            /\ window_nm[1] <= sn_self.wavelength[i]
            /\ sn_self.wavelength[i] <= window_nm[2]
            /\ IsFinite(sn_self.flux[i]) /\ IsFinite(sn_self.flux_err.value[i])
            /\ sn_self.flux_err.value[i] > 0
            /\ sn_self.flux[i] # 0}

\* q is the k-th smallest |flux / uncertainty| of the survivors, by
\* cross-multiplication
KthRatio(k, q) ==
    /\ \E i \in Survivors : q * sn_self.flux_err.value[i] = Abs(sn_self.flux[i])
    /\ Cardinality({i \in Survivors :
                        Abs(sn_self.flux[i]) < q * sn_self.flux_err.value[i]}) < k
    /\ Cardinality({i \in Survivors :
                        Abs(sn_self.flux[i]) <= q * sn_self.flux_err.value[i]}) >= k

\* the ratios the survivors can have
SurvivorRatios ==
    {Abs(sn_self.flux[i]) \div sn_self.flux_err.value[i] : i \in Survivors}

\* m is the median of the survivors' ratios
MedianOfSurvivors(m) ==
    LET n == Cardinality(Survivors) IN
    \E lo, hi \in SurvivorRatios :
        /\ KthRatio((n + 1) \div 2, lo)
        /\ KthRatio(n \div 2 + 1, hi)
        /\ 2 * m = lo + hi

\* C17 as claimed: measure_snr returns 'unavailable' exactly when the wavelength
\* sequence is empty, the uncertainty is absent or no sample survives in the
\* closed window; otherwise it returns the median of |flux/uncertainty| over
\* the survivors.
C17_Original ==
    sn_pc = "return" =>
        IF Survivors = {} THEN sn_ret = None
        ELSE ~sn_ret.is_none /\ MedianOfSurvivors(sn_ret.value)


\* C17 as amended: measure_snr returns 'unavailable' when the wavelength
\* sequence is empty, the uncertainty is absent or no sample survives in the
\* closed window, and also when the median of the survivors' |flux/uncertainty|
\* is not finite because a quotient is beyond the floating-point range;
\* otherwise it returns that median, samples at the ends of the window included.
C17_MedianOfSurvivors ==
    sn_pc = "return" =>
        IF Survivors = {} THEN sn_ret = None
        ELSE LET n == Cardinality(Survivors) IN
             \E lo, hi \in SurvivorRatios :
                /\ KthRatio((n + 1) \div 2, lo)
                /\ KthRatio(n \div 2 + 1, hi)
                /\ IF hi > FloatMax THEN sn_ret = None
                   ELSE ~sn_ret.is_none /\ 2 * sn_ret.value = lo + hi

\* the two survivors stand at the two ends of the window, with a sample of
\* non-finite flux between them; the result is the mean of their ratios
C17_Witness ==
    /\ sn_pc = "return"
    /\ window_nm = <<Nm(500), Nm(502)>>
    /\ sn_self.wavelength = <<Nm(500), Nm(501), Nm(502)>>
    /\ sn_self.flux = <<-48, NaN, -48>>
    /\ sn_self.flux_err = Some(<<4, 1, 1>>)
    /\ Survivors = {1, 3}
    /\ sn_ret = Some(30)


---------------------------------------------------------------------------
(* Claims about the radial velocity, checked under SpecVelocity *)

\* v is the k-th smallest reference wavelength
KthWavelength(k, v) ==
    /\ \E i \in 1..Len(ref_wavelength) : ref_wavelength[i] = v
    /\ Cardinality({i \in 1..Len(ref_wavelength) : ref_wavelength[i] < v}) < k
    /\ Cardinality({i \in 1..Len(ref_wavelength) : ref_wavelength[i] <= v}) >= k

\* twice the median of the reference wavelengths, which are not empty
TwicePivot ==
    LET n == Len(ref_wavelength)
        W == {ref_wavelength[i] : i \in 1..n}
    IN (CHOOSE v \in W : KthWavelength((n + 1) \div 2, v))
       + (CHOOSE v \in W : KthWavelength(n \div 2 + 1, v))

ZeroVelocity == rv_ret.scale = 0 \/ rv_ret.ratio.num = 0

\* C18: estimate_radial_velocity returns C * shift / pivot with C = 299792.458
\* km/s, shift the result of estimate_shift on the same four arguments and
\* pivot the median of the reference wavelengths; it returns 0 when the pivot
\* is zero or not finite, and so also whenever the shift is 0.
C18_VelocityFromShift ==
    rv_pc = "return" =>
        /\ Return(rv_shift_nm) = estimate_shift_nm(ref_wavelength, ref_flux, wavelength, flux)
        /\ IF Len(ref_wavelength) = 0 THEN ZeroVelocity
           ELSE IF TwicePivot = 0 THEN ZeroVelocity
           ELSE /\ rv_ret.scale = SPEED_OF_LIGHT_KMS
                /\ rv_ret.ratio.den > 0
                /\ rv_ret.ratio.num * TwicePivot = 2 * rv_shift_nm * rv_ret.ratio.den
        /\ rv_shift_nm = 0 => ZeroVelocity

\* a shift of 0.6 nm on a reference around 501 nm: a velocity that is not 0
C18_Witness ==
    /\ rv_pc = "return"
    /\ rv_shift_nm = 96
    /\ TwicePivot = 2 * Nm(501)
    /\ rv_ret = [scale |-> SPEED_OF_LIGHT_KMS, ratio |-> [num |-> 1, den |-> 835]]


---------------------------------------------------------------------------
(* Claims about the combined product, checked under SpecService *)

\* C19 as claimed: the combined spectrum's target and instrument are both
\* copied from the metadata of the reference (first) source.
C19_Original ==
    sv_pc = "return" =>
        /\ sv_ret.metadata.target = sv_spectra[1].metadata.target
        /\ sv_ret.metadata.instrument = sv_spectra[1].metadata.instrument

\* C19: the combined spectrum's target is copied from the metadata of the
\* reference (first) source; its instrument is the fixed label "Combined",
\* whatever the instruments of the sources.
C19_TargetFromReference ==
    sv_pc = "return" =>
        /\ sv_ret.metadata.target = sv_spectra[1].metadata.target
        /\ sv_ret.metadata.instrument = "Combined"

\* two sources of different targets and instruments were combined
C19_Witness ==
    /\ sv_pc = "return"
    /\ Len(sv_spectra) = 2
    /\ sv_spectra[1].metadata.target # sv_spectra[2].metadata.target
    /\ sv_spectra[1].metadata.instrument # sv_spectra[2].metadata.instrument
    /\ sv_ret.metadata.target = sv_spectra[1].metadata.target

RECURSIVE IdsFrom(_, _)
\* the identifiers of sps from the k-th on, a "+" before each but the first
IdsFrom(sps, k) ==
    IF k > Len(sps) THEN <<>>
    ELSE (IF k = 1 THEN <<>> ELSE <<"+">>) \o sps[k].metadata.obs_id \o IdsFrom(sps, k + 1)

\* the same sources in the same order, carrying the data d
WithData(sps, d) ==
    [k \in 1..Len(sps) |-> [sps[k] EXCEPT !.wavelength = d.wavelength, !.flux = d.flux]]

\* the identifier the service gives the call, if it returns
SameIdentifier(sps, rf) ==
    \E r \in {combine(sps, rf)} :
        r.kind = "return" => r.value.metadata.obs_id = sv_ret.metadata.obs_id

\* C20: the combined spectrum's identifier is "COMBINED-" followed by the
\* source identifiers in list order with "+" between them, and the same
\* sources in the same order get the same identifier whatever the rest_frame
\* flag and whatever data they carry.
C20_IdentifierFromOrderedIds ==
    sv_pc = "return" =>
        /\ sv_ret.metadata.obs_id = COMBINED_PREFIX \o IdsFrom(sv_spectra, 1)
        /\ Len(sv_spectra) < MaxSources => SameIdentifier(sv_spectra, ~sv_rest_frame)
        /\ \A d \in SourceData : SameIdentifier(WithData(sv_spectra, d), sv_rest_frame)

\* two sources of different identifiers and different data were combined
C20_Witness ==
    /\ sv_pc = "return"
    /\ Len(sv_spectra) = 2
    /\ sv_spectra[1].metadata.obs_id # sv_spectra[2].metadata.obs_id
    /\ sv_spectra[1].flux # sv_spectra[2].flux
    /\ sv_ret.metadata.obs_id =
            COMBINED_PREFIX \o sv_spectra[1].metadata.obs_id \o <<"+">> \o sv_spectra[2].metadata.obs_id


---------------------------------------------------------------------------
(* Claims about storage, checked under SpecStorage *)

\* C12 as claimed: the wavelength array of a combination result is a copy of
\* the reference spectrum's wavelengths: once combine_spectra or
\* SpectrumCombiner.combine has returned, a write to the result's wavelength
\* leaves the reference input's wavelength as it was, and a write to the
\* reference input's wavelength leaves the result's wavelength as it was.
C12_ResultGridIsACopy ==
    st_pc = "written" =>
        /\ st_target = "result" => st_heap[st_args.objs[1]] = st_after[st_args.objs[1]]
        /\ st_target = "input" => st_heap[st_ret[1]] = st_after[st_ret[1]]

\* C15: rebin_linear, estimate_shift_nm, combine_spectra and measure_snr (and
\* SpectrumCombiner.combine) leave every object the caller passed with the
\* values it held at the call, in the same order, also when the call sorts
\* an out-of-order spectrum, replaces non-finite flux, or subtracts the
\* median from the reference flux.
C15_InputsUnchanged ==
    st_pc = "return" =>
        \A a \in 1..Len(st_before) : st_heap[a] = st_before[a]

\* estimate_shift_nm returned from a call whose reference arrays are float
\* arrays out of wavelength order, with a median to subtract
C15_Witness ==
    /\ st_pc = "return"
    /\ st_fn = "estimate_shift_nm"
    /\ st_before[1].is_array /\ st_before[2].is_array
    /\ ~StrictlyIncreasing(st_before[1].data)
    /\ Median(st_before[2].data) # 0
    /\ st_heap[2].data = st_before[2].data


\* the sources of the call that define the bound b ("wvl_min_nm" or "wvl_max_nm")
Defining(b) == {k \in 1..Len(sv_spectra) : ~sv_spectra[k].metadata[b].is_none}

\* C21: the combined spectrum's lower wavelength bound is the least of the
\* lower bounds the sources define and its upper bound the greatest of the
\* upper bounds they define; a bound no source defines is the reference's
\* (undefined) value for it; each bound is derived from the sources' values
\* for that bound alone.
C21_BoundsAreUnionOfDefined ==
    sv_pc = "return" =>
        /\ IF Defining("wvl_min_nm") = {}
           THEN sv_ret.metadata.wvl_min_nm = sv_spectra[1].metadata.wvl_min_nm
           ELSE /\ ~sv_ret.metadata.wvl_min_nm.is_none
                /\ \E k \in Defining("wvl_min_nm") :
                      sv_ret.metadata.wvl_min_nm.value = sv_spectra[k].metadata.wvl_min_nm.value
                /\ \A k \in Defining("wvl_min_nm") :
                      sv_ret.metadata.wvl_min_nm.value <= sv_spectra[k].metadata.wvl_min_nm.value
        /\ IF Defining("wvl_max_nm") = {}
           THEN sv_ret.metadata.wvl_max_nm = sv_spectra[1].metadata.wvl_max_nm
           ELSE /\ ~sv_ret.metadata.wvl_max_nm.is_none
                /\ \E k \in Defining("wvl_max_nm") :
                      sv_ret.metadata.wvl_max_nm.value = sv_spectra[k].metadata.wvl_max_nm.value
                /\ \A k \in Defining("wvl_max_nm") :
                      sv_ret.metadata.wvl_max_nm.value >= sv_spectra[k].metadata.wvl_max_nm.value

\* the reference defines a lower bound and no upper bound, the second source
\* defines both with the larger lower bound: the lower bound comes from the
\* reference and the upper bound from the second source
C21_Witness ==
    /\ sv_pc = "return"
    /\ Len(sv_spectra) = 2
    /\ ~sv_spectra[1].metadata.wvl_min_nm.is_none
    /\ sv_spectra[1].metadata.wvl_max_nm.is_none
    /\ ~sv_spectra[2].metadata.wvl_min_nm.is_none
    /\ ~sv_spectra[2].metadata.wvl_max_nm.is_none
    /\ sv_spectra[2].metadata.wvl_min_nm.value > sv_spectra[1].metadata.wvl_min_nm.value
    /\ sv_ret.metadata.wvl_min_nm = sv_spectra[1].metadata.wvl_min_nm
    /\ sv_ret.metadata.wvl_max_nm = sv_spectra[2].metadata.wvl_max_nm


---------------------------------------------------------------------------
(***************************************************************************)
(* The main window on the GUI thread (gui/main_window.py), the viewer      *)
(* dialog's combine (gui/spectrum_viewer.py) and the store                 *)
(* (services/spectra.py, SpectrumStore).  Metadata and spectrum objects    *)
(* have identity: ap_meta and ap_spectra are the objects made so far and   *)
(* an object is named by its position.  The table, the cache, a viewer and *)
(* a spectrum hold such names, so two holders of one object see one state. *)
(* The samples of a spectrum are left out: what the handlers do with the   *)
(* records does not depend on them.  A handler runs to completion before   *)
(* the GUI thread takes the next event; bulk_get is taken one get at a     *)
(* time because each get can end the handler with an exception.            *)
(***************************************************************************)

\* dict, as the list of its entries in insertion order
CacheHas(c, k) == \E i \in 1..Len(c) : c[i].key = k
CacheGet(c, k) == c[CHOOSE i \in 1..Len(c) : c[i].key = k].value
\* an assignment that leaves the dict as it was
CachePut_Dropped(c, k, v) == c

\* self._cache[k] = v
CachePut(c, k, v) ==
    IF CacheHas(c, k)
    THEN [i \in 1..Len(c) |-> IF c[i].key = k THEN [key |-> k, value |-> v] ELSE c[i]]
    ELSE Append(c, [key |-> k, value |-> v])

\* SpectrumStore.store(spectrum) on the objects sps and metas
store(c, metas, sps, sp) == CachePut(c, metas[sps[sp].metadata].obs_id, sp)

\* a row of a search result as SpectrumMetadata: selected, not used, not derived;
\* dp_id is "" when the row has none
RowMetadata(row) ==
    [obs_id |-> row.obs_id, target |-> row.target, dp_id |-> row.dp_id,
     selected |-> TRUE,
     used_in_combination |-> FALSE,
     is_combined_product |-> FALSE]

\* the fields SpectrumCombiner.combine gives the combined product (lines 161-178)
AppCombinedMetadata(metas) ==
    [obs_id |-> COMBINED_PREFIX \o Join(<<"+">>, Seq1([k \in 1..Len(metas) |-> metas[k].obs_id])),
     target |-> Reference(metas).target, dp_id |-> "", selected |-> TRUE,
     used_in_combination |-> FALSE,
     is_combined_product |-> TRUE]

\* safe_lower(m.target) as its rank among the targets of the search results
TargetKey(t) == IF t = "HD1" THEN 1 ELSE 2

\* SpectrumTableModel._sort_key(column), columns 0 (target) and 6 (selected)
SortKey(column, m) ==
    IF column = 6 THEN (IF m.selected THEN 0 ELSE 1) ELSE TargetKey(m.target)

\* list.sort(key=..., reverse=descending): stable in both directions
StableSort(recs, keys, descending) ==
    LET n == Len(recs)
        Before(i, j) ==
            \/ (IF descending THEN keys[i] > keys[j] ELSE keys[i] < keys[j])
            \/ (keys[i] = keys[j] /\ i < j)
        Place(i) == 1 + Cardinality({j \in 1..n : Before(j, i)})
    IN [p \in 1..n |-> recs[CHOOSE i \in 1..n : Place(i) = p]]

\* SpectrumTableModel.sort(column, order) on the records list
sort(recs, metas, srt) ==
    StableSort(recs, [i \in 1..Len(recs) |-> SortKey(srt.column, metas[recs[i]])],
               srt.descending)

\* setData without the test of used_in_combination
setData_Unguarded(metas, m, checked) ==
    [metas EXCEPT ![m].selected = checked]

\* SpectrumTableModel.setData(index, value, CheckStateRole) in column 6 (lines 93-99)
setData(metas, m, checked) ==
    IF metas[m].used_in_combination THEN metas
    ELSE [metas EXCEPT ![m].selected = checked]

\* MainWindow._set_selection(value) (lines 340-344)
_set_selection(metas, recs, value) ==
    [m \in 1..Len(metas) |->
        IF ~(\E i \in 1..Len(recs) : recs[i] = m) THEN metas[m]
        ELSE IF metas[m].used_in_combination /\ value THEN metas[m]
        ELSE [metas[m] EXCEPT !.selected = value /\ ~metas[m].used_in_combination]]

\* MainWindow._selected_records()
_selected_records(recs, metas) == SelectSeq(recs, LAMBDA m : metas[m].selected)

\* the marking loop of _register_combination that marks derived sources too
MarkSources_All(metas, sps, srcs) ==
    [m \in 1..Len(metas) |->
        IF \E k \in 1..Len(srcs) : sps[srcs[k]].metadata = m
        THEN [metas[m] EXCEPT !.used_in_combination = TRUE, !.selected = FALSE]
        ELSE metas[m]]

\* the marking loop of _register_combination (lines 493-498)
MarkSources(metas, sps, srcs) ==
    [m \in 1..Len(metas) |->
        IF /\ \E k \in 1..Len(srcs) : sps[srcs[k]].metadata = m
           /\ ~metas[m].is_combined_product
        THEN [metas[m] EXCEPT !.used_in_combination = TRUE, !.selected = FALSE]
        ELSE metas[m]]

---------------------------------------------------------------------------
(* Inputs and steps of the application specification *)

MaxRecords == 2

\* at most this many combinations and failed fetches in one behaviour
MaxCombinations == MaxRecords
MaxFailures == MaxRecords - 1

\* rows of the archive, each with a file of its own.  Two rows carry one
\* obs_id: _to_metadata_row takes obs_publisher_did, else the obs_id of the
\* observation, else dp_id (services/eso.py:86-87)
ArchiveRows ==
    <<[obs_id |-> <<"a">>, target |-> "HD2", dp_id |-> "A"],
      [obs_id |-> <<"u">>, target |-> "HD1", dp_id |-> "U1"],
      [obs_id |-> <<"u">>, target |-> "HD2", dp_id |-> "U2"]>>

\* the rows numbered in S, in the order of the archive
RowsOf(S) ==
    [k \in 1..Cardinality(S) |->
        ArchiveRows[CHOOSE i \in S : Cardinality({j \in S : j < i}) = k - 1]]

\* a search returns up to MaxRecords rows
SearchResults ==
    {RowsOf(S) : S \in {T \in SUBSET (1..Len(ArchiveRows)) :
                            T # {} /\ Cardinality(T) <= MaxRecords}}

AppFrame == UNCHANGED <<rb_vars, es_vars, cb_vars, sn_vars, rv_vars, sv_vars, st_vars, dl_vars>>

Combinations == Cardinality({m \in 1..Len(ap_meta) : ap_meta[m].is_combined_product})
Failures == Cardinality({i \in 1..Len(ap_fetches) : ~ap_fetches[i].ok})

InitApp ==
    /\ AppIdle
    /\ DownloadIdle
    /\ RebinIdle /\ EstIdle /\ CombIdle
    /\ SnrIdle /\ VelocityIdle /\ ServiceIdle /\ StorageIdle

\* _on_search_finished(result): set_records, then the sort in force
OnSearchFinished(rows) ==
    /\ ap_pc = "idle"
    /\ ap_meta = <<>>
    /\ \E metas \in {[k \in 1..Len(rows) |-> RowMetadata(rows[k])]} :
        /\ ap_meta' = metas
        /\ ap_records' = sort([k \in 1..Len(rows) |-> k], metas, ap_sort)
    /\ UNCHANGED <<ap_spectra, ap_sort, ap_cache, ap_dialogs, ap_pc, ap_run,
                   ap_fetches>>
    /\ AppFrame

\* a click on the check box of a row, or a double click on it
SetData(row, checked) ==
    /\ ap_pc = "idle"
    /\ row \in 1..Len(ap_records)
    /\ ap_meta' = setData(ap_meta, ap_records[row], checked)
    /\ UNCHANGED <<ap_spectra, ap_records, ap_sort, ap_cache, ap_dialogs, ap_pc,
                   ap_run, ap_fetches>>
    /\ AppFrame

\* Select All (value TRUE) and Deselect All (value FALSE)
SetSelection(value) ==
    /\ ap_pc = "idle"
    /\ ap_meta' = _set_selection(ap_meta, ap_records, value)
    /\ UNCHANGED <<ap_spectra, ap_records, ap_sort, ap_cache, ap_dialogs, ap_pc,
                   ap_run, ap_fetches>>
    /\ AppFrame

\* _on_header_clicked(section)
OnHeaderClicked(section) ==
    /\ ap_pc = "idle"
    /\ \E srt \in {[column |-> section,
                    descending |-> ap_sort.column = section /\ ~ap_sort.descending]} :
        /\ ap_sort' = srt
        /\ ap_records' = sort(ap_records, ap_meta, srt)
    /\ UNCHANGED <<ap_meta, ap_spectra, ap_cache, ap_dialogs, ap_pc, ap_run,
                   ap_fetches>>
    /\ AppFrame

\* _on_view up to the call of bulk_get; one viewer is opened in a behaviour
OnView ==
    /\ ap_pc = "idle"
    /\ ap_dialogs = <<>>
    /\ Len(_selected_records(ap_records, ap_meta)) > 0
    /\ ap_pc' = "bulk_get"
    /\ ap_run' = [NoRun EXCEPT !.handler = "view",
                               !.selected = _selected_records(ap_records, ap_meta)]
    /\ UNCHANGED <<ap_meta, ap_spectra, ap_records, ap_sort, ap_cache, ap_dialogs,
                   ap_fetches>>
    /\ AppFrame

\* _on_combine up to the call of bulk_get
OnCombine ==
    /\ ap_pc = "idle"
    /\ Combinations < MaxCombinations
    /\ Len(_selected_records(ap_records, ap_meta)) >= 2
    /\ ap_pc' = "bulk_get"
    /\ ap_run' = [NoRun EXCEPT !.handler = "combine",
                               !.selected = _selected_records(ap_records, ap_meta)]
    /\ UNCHANGED <<ap_meta, ap_spectra, ap_records, ap_sort, ap_cache, ap_dialogs,
                   ap_fetches>>
    /\ AppFrame

\* the record the running bulk_get asks for next
NextRecord == ap_run.selected[Len(ap_run.spectra) + 1]

Getting == ap_pc = "bulk_get" /\ Len(ap_run.spectra) < Len(ap_run.selected)

\* bulk_get returns without waiting for its gets
AllGot_NoWait == TRUE

\* bulk_get has returned: one spectrum for every record
AllGot == Len(ap_run.spectra) = Len(ap_run.selected)

\* SpectrumStore.get: the identifier is in the cache
GetCached ==
    /\ Getting
    /\ CacheHas(ap_cache, ap_meta[NextRecord].obs_id)
    /\ ap_run' = [ap_run EXCEPT !.spectra =
                    Append(@, CacheGet(ap_cache, ap_meta[NextRecord].obs_id))]
    /\ UNCHANGED <<ap_meta, ap_spectra, ap_records, ap_sort, ap_cache, ap_dialogs,
                   ap_pc, ap_fetches>>
    /\ AppFrame

\* SpectrumStore.get: the identifier is not in the cache and fetch, given a
\* dp_id, returns SpectrumData(metadata=metadata, ...), which is cached and returned
GetFetched ==
    /\ Getting
    /\ ~CacheHas(ap_cache, ap_meta[NextRecord].obs_id)
    /\ ap_meta[NextRecord].dp_id # ""
    /\ ap_spectra' = Append(ap_spectra, [metadata |-> NextRecord, combined |-> FALSE])
    /\ ap_cache' = CachePut(ap_cache, ap_meta[NextRecord].obs_id, Len(ap_spectra) + 1)
    /\ ap_run' = [ap_run EXCEPT !.spectra = Append(@, Len(ap_spectra) + 1)]
    /\ ap_fetches' = Append(ap_fetches, [obs_id |-> ap_meta[NextRecord].obs_id,
                                         metadata |-> NextRecord, ok |-> TRUE])
    /\ UNCHANGED <<ap_meta, ap_records, ap_sort, ap_dialogs, ap_pc>>
    /\ AppFrame

\* SpectrumStore.get: the identifier is not in the cache and fetch raises (no
\* dp_id, a failed request, an unreadable file); the exception ends the handler
GetRaises ==
    /\ Getting
    /\ ~CacheHas(ap_cache, ap_meta[NextRecord].obs_id)
    /\ Failures < MaxFailures
    /\ ap_fetches' = Append(ap_fetches, [obs_id |-> ap_meta[NextRecord].obs_id,
                                         metadata |-> NextRecord, ok |-> FALSE])
    /\ ap_pc' = "idle"
    /\ ap_run' = NoRun
    /\ UNCHANGED <<ap_meta, ap_spectra, ap_records, ap_sort, ap_cache, ap_dialogs>>
    /\ AppFrame

\* the rest of _on_view: the dialog keeps list(spectra)
ViewOpen ==
    /\ ap_pc = "bulk_get" /\ ap_run.handler = "view"
    /\ AllGot
    /\ ap_dialogs' = Append(ap_dialogs, ap_run.spectra)
    /\ ap_pc' = "idle"
    /\ ap_run' = NoRun
    /\ UNCHANGED <<ap_meta, ap_spectra, ap_records, ap_sort, ap_cache,
                   ap_fetches>>
    /\ AppFrame

\* combiner.combine(srcs) and _register_combination(combined, srcs): the new
\* metadata and spectrum objects, the marks, store.store and add_record
Register(srcs) ==
    \* combine raises ValueError when it is given no spectra
    /\ Len(srcs) > 0
    /\ \E cm \in {Len(ap_meta) + 1}, cs \in {Len(ap_spectra) + 1} :
       \E metas \in {Append(MarkSources(ap_meta, ap_spectra, srcs),
                            AppCombinedMetadata([k \in 1..Len(srcs) |->
                                ap_meta[ap_spectra[srcs[k]].metadata]]))},
          sps \in {Append(ap_spectra, [metadata |-> cm, combined |-> TRUE])} :
           /\ ap_meta' = metas
           /\ ap_spectra' = sps
           /\ ap_cache' = store(ap_cache, metas, sps, cs)
           /\ ap_records' = sort(Append(ap_records, cm), metas, ap_sort)

\* the rest of _on_combine (lines 485-487)
Combine ==
    /\ ap_pc = "bulk_get" /\ ap_run.handler = "combine"
    /\ AllGot
    /\ Register(ap_run.spectra)
    /\ ap_pc' = "idle"
    /\ ap_run' = NoRun
    /\ UNCHANGED <<ap_sort, ap_dialogs, ap_fetches>>
    /\ AppFrame

\* SpectrumViewerDialog._combine of dialog d, with on_combine = _on_viewer_combined
ViewerCombine(d) ==
    /\ ap_pc = "idle"
    /\ Combinations < MaxCombinations
    /\ d \in 1..Len(ap_dialogs)
    /\ Len(ap_dialogs[d]) > 0
    /\ Register(ap_dialogs[d])
    /\ ap_dialogs' = [ap_dialogs EXCEPT ![d] = Append(@, Len(ap_spectra) + 1)]
    /\ UNCHANGED <<ap_sort, ap_pc, ap_run, ap_fetches>>
    /\ AppFrame

\* the table and the combinations, with every fetch returning
NextTable ==
    \/ \E rows \in SearchResults : OnSearchFinished(rows)
    \/ \E row \in 1..(MaxRecords + MaxCombinations), checked \in BOOLEAN : SetData(row, checked)
    \/ \E value \in BOOLEAN : SetSelection(value)
    \/ \E section \in {0, 6} : OnHeaderClicked(section)
    \/ OnView
    \/ OnCombine
    \/ GetCached
    \/ GetFetched
    \/ ViewOpen
    \/ Combine
    \/ ViewerCombine(1)

SpecTable == InitApp /\ [][NextTable]_vars

\* the store under View Selected and the combinations, the table left as sorted
NextStore ==
    \/ \E rows \in SearchResults : OnSearchFinished(rows)
    \/ \E row \in 1..(MaxRecords + MaxCombinations), checked \in BOOLEAN : SetData(row, checked)
    \/ OnView
    \/ OnCombine
    \/ GetCached
    \/ GetFetched
    \/ GetRaises
    \/ ViewOpen
    \/ Combine
    \/ ViewerCombine(1)

SpecStore == InitApp /\ [][NextStore]_vars

---------------------------------------------------------------------------
(* Registration of a combination *)

\* a step that registers a combination: one metadata object more, after the search
Registering == Len(ap_meta) > 0 /\ Len(ap_meta') = Len(ap_meta) + 1

\* the sources of the combination being registered: the spectra bulk_get
\* returned to _on_combine, or the spectra the viewer dialog holds
RegisteredSources == IF ap_pc = "bulk_get" THEN ap_run.spectra ELSE ap_dialogs[1]

\* s holds sub from position p on
HoldsAt(s, sub, p) == p + Len(sub) - 1 <= Len(s) /\ SubSeq(s, p, p + Len(sub) - 1) = sub

\* C22: when a combination is registered, from the main window or from the
\* viewer, the metadata of the combined spectrum says it is a derived product,
\* every source that is not a derived product is afterwards used in a
\* combination and not selected, and every source that is a derived product
\* keeps both fields.
C22_RegistrationMarksSources ==
    [][Registering =>
        /\ Len(ap_spectra') = Len(ap_spectra) + 1
        /\ ap_meta'[ap_spectra'[Len(ap_spectra')].metadata].is_combined_product
        /\ \A k \in 1..Len(RegisteredSources) :
            \E m \in {ap_spectra[RegisteredSources[k]].metadata} :
                IF ap_meta[m].is_combined_product
                THEN /\ ap_meta'[m].used_in_combination = ap_meta[m].used_in_combination
                     /\ ap_meta'[m].selected = ap_meta[m].selected
                ELSE /\ ap_meta'[m].used_in_combination
                     /\ ~ap_meta'[m].selected]_vars

\* the viewer has registered a combination, and the main window has then
\* registered one of that derived product and a fetched spectrum: the derived
\* source is still selected and not used, a fetched source is used and not selected
C22_Witness ==
    /\ ap_pc = "idle"
    /\ Len(ap_dialogs) = 1
    /\ \E i \in 1..Len(ap_dialogs[1]), sp \in 1..Len(ap_spectra) :
        /\ ap_spectra[ap_dialogs[1][i]].combined
        /\ ap_meta[ap_spectra[ap_dialogs[1][i]].metadata].selected
        /\ ~ap_meta[ap_spectra[ap_dialogs[1][i]].metadata].used_in_combination
        /\ ap_spectra[sp].combined
        /\ \A j \in 1..Len(ap_dialogs[1]) : ap_dialogs[1][j] # sp
        /\ \E p \in 2..Len(ap_meta[ap_spectra[sp].metadata].obs_id) :
             HoldsAt(ap_meta[ap_spectra[sp].metadata].obs_id, COMBINED_PREFIX, p)
    /\ \E m \in 1..Len(ap_meta) :
        /\ ~ap_meta[m].is_combined_product
        /\ ap_meta[m].used_in_combination /\ ~ap_meta[m].selected


---------------------------------------------------------------------------
(* Fetches of one store *)

\* C23 as stated: the repository's fetch is invoked at most once for an
\* identifier, whatever the calls made on the store.
C23_Original ==
    \A i \in 1..Len(ap_fetches), j \in 1..Len(ap_fetches) :
        i < j => ap_fetches[i].obs_id # ap_fetches[j].obs_id

\* C23: at most one fetch returns for an identifier: a fetch is invoked for an
\* identifier only when every earlier fetch for it raised, and never for the
\* identifier of a spectrum that was stored.
C23_FetchedOrStoredIsNotFetchedAgain ==
    /\ \A i \in 1..Len(ap_fetches), j \in 1..Len(ap_fetches) :
        (i < j /\ ap_fetches[i].obs_id = ap_fetches[j].obs_id) => ~ap_fetches[i].ok
    /\ \A i \in 1..Len(ap_fetches), sp \in 1..Len(ap_spectra) :
        ap_spectra[sp].combined =>
            ap_fetches[i].obs_id # ap_meta[ap_spectra[sp].metadata].obs_id

\* a fetch raised, a later fetch for the identifier returned, and bulk_get has
\* since taken that spectrum and a stored one from the cache
C23_Witness ==
    /\ \E i \in 1..Len(ap_fetches), j \in 1..Len(ap_fetches) :
        /\ i < j
        /\ ap_fetches[i].obs_id = ap_fetches[j].obs_id
        /\ ~ap_fetches[i].ok /\ ap_fetches[j].ok
        /\ \E k \in 1..Len(ap_run.spectra) :
            ap_meta[ap_spectra[ap_run.spectra[k]].metadata].obs_id = ap_fetches[j].obs_id
    /\ \E k \in 1..Len(ap_run.spectra) : ap_spectra[ap_run.spectra[k]].combined
    /\ Len(ap_dialogs) = 1

---------------------------------------------------------------------------
(* Order of retrieval and combination *)

\* a step in which the repository's fetch raises
Raising == Len(ap_fetches') = Len(ap_fetches) + 1 /\ ~ap_fetches'[Len(ap_fetches')].ok

\* C24: when a combination runs, from the main window or from the viewer,
\* every source is a spectrum that a fetch or the cache has delivered before;
\* in the main window bulk_get has delivered one for every selected record.  A
\* fetch that raises ends the handler: no combination is made of its records.
C24_CombineAfterEverySourceIsGot ==
    [][/\ Registering =>
            /\ \A k \in 1..Len(RegisteredSources) :
                RegisteredSources[k] \in 1..Len(ap_spectra)
            /\ ap_pc = "bulk_get" =>
                /\ Len(ap_run.spectra) = Len(ap_run.selected)
                /\ \A k \in 1..Len(ap_run.selected) :
                    /\ CacheHas(ap_cache, ap_meta[ap_run.selected[k]].obs_id)
                    /\ ap_run.spectra[k] =
                         CacheGet(ap_cache, ap_meta[ap_run.selected[k]].obs_id)
       /\ Raising =>
            /\ ap_pc' = "idle" /\ ap_run' = NoRun
            /\ ap_meta' = ap_meta /\ ap_spectra' = ap_spectra
            /\ ap_records' = ap_records /\ ap_dialogs' = ap_dialogs]_vars

\* a fetch has raised and ended a handler; later the main window has combined
\* fetched spectra and the viewer has combined the spectra it holds
C24_Witness ==
    /\ ap_pc = "idle"
    /\ \E i \in 1..Len(ap_fetches) : ~ap_fetches[i].ok
    /\ \E i \in 1..Len(ap_fetches) : ap_fetches[i].ok
    /\ Len(ap_dialogs) = 1
    /\ \E i \in 1..Len(ap_dialogs[1]) : ap_spectra[ap_dialogs[1][i]].combined
    /\ \E sp \in 1..Len(ap_spectra) :
        /\ ap_spectra[sp].combined
        /\ \A j \in 1..Len(ap_dialogs[1]) : ap_dialogs[1][j] # sp

---------------------------------------------------------------------------
(* Selection in the table *)

\* C25: under toggles, Select All, Deselect All, sorts and combinations no
\* record of the table is both used in a combination and selected, and a
\* record that is used in a combination stays so.
C25_UsedIsNeverSelected ==
    /\ [](\A i \in 1..Len(ap_records) :
            ~(ap_meta[ap_records[i]].used_in_combination /\ ap_meta[ap_records[i]].selected))
    /\ [][\A m \in 1..Len(ap_meta) :
            ap_meta[m].used_in_combination => ap_meta'[m].used_in_combination]_vars

\* the table is sorted by the selection column, descending, and holds a used
\* record above a selected derived record, and a fetched record that is
\* selected and not used
C25_Witness ==
    /\ ap_pc = "idle"
    /\ ap_sort = [column |-> 6, descending |-> TRUE]
    /\ \E i \in 1..Len(ap_records), j \in 1..Len(ap_records), k \in 1..Len(ap_records) :
        /\ i < j
        /\ ap_meta[ap_records[i]].used_in_combination
        /\ ~ap_meta[ap_records[i]].selected
        /\ ap_meta[ap_records[j]].is_combined_product
        /\ ap_meta[ap_records[j]].selected
        /\ ~ap_meta[ap_records[k]].is_combined_product
        /\ ~ap_meta[ap_records[k]].used_in_combination
        /\ ap_meta[ap_records[k]].selected

---------------------------------------------------------------------------
(* The spectrum the store holds for a record *)

\* C27: the spectrum the store returns for a record of the table carries that
\* record's own metadata: whenever the cache holds the record's identifier,
\* what it holds there is a spectrum of that record.
C27_GetReturnsTheRecordsOwnSpectrum ==
    \A i \in 1..Len(ap_records) :
        CacheHas(ap_cache, ap_meta[ap_records[i]].obs_id) =>
            ap_spectra[CacheGet(ap_cache, ap_meta[ap_records[i]].obs_id)].metadata
                = ap_records[i]
---------------------------------------------------------------------------
(***************************************************************************)
(* Threads on one store: a DownloadWorker running                          *)
(* SpectrumDownloader.download (services/downloader.py,                    *)
(* gui/main_window.py:186-207) while the GUI thread runs store.bulk_get or *)
(* a second DownloadWorker runs.  SpectrumStore.get takes no lock, so a    *)
(* thread can be interrupted between the test of line 133, the call of     *)
(* fetch, the assignment of line 134 and the read of line 135; what a      *)
(* thread does to its own locals between two of these points is one step.  *)
(* Thread 1 is a worker; thread 2 is a worker or the GUI thread.           *)
(***************************************************************************)

MaxItems == 2

\* a thread that has not been started
IdleThread ==
    [kind |-> "none", records |-> <<>>, idx |-> 0, pc |-> "idle", got |-> 0,
     asked |-> <<>>, downloaded |-> <<>>, progress |-> <<>>, failures |-> <<>>,
     signals |-> <<>>, raised |-> FALSE]

\* the selected records of a table of MaxItems records with identifiers of
\* their own: a non-empty list in table order
DlSelections ==
    {s \in SeqsUpTo(1..MaxItems, MaxItems) :
        s # <<>> /\ \A i \in 1..Len(s), j \in 1..Len(s) : i < j => s[i] < s[j]}

\* the record a thread is at
Item(th) == th.records[th.idx]

\* the thread as download or bulk_get begins: items = list(records), the first get
Started(kind, recs) ==
    [IdleThread EXCEPT !.kind = kind, !.records = recs, !.idx = 1, !.pc = "check",
                       !.asked = <<recs[1]>>]

\* the except clause that records the failure and goes on with the next record
Failed_GoesOn(th) ==
    IF th.kind = "worker"
    THEN IF th.idx < Len(th.records)
         THEN [th EXCEPT !.failures = Append(@, Item(th)), !.idx = @ + 1, !.pc = "check",
                         !.asked = Append(@, th.records[th.idx + 1])]
         ELSE [th EXCEPT !.failures = Append(@, Item(th)), !.pc = "done",
                         !.signals = Append(@, "finished")]
    ELSE [th EXCEPT !.pc = "done", !.raised = TRUE]

\* get has raised.  download calls failure_callback(record, exc) and re-raises
\* (downloader.py:28-31) and DownloadWorker.run emits failed (main_window.py:202-205);
\* bulk_get lets the exception leave the handler
Failed(th) ==
    IF th.kind = "worker"
    THEN [th EXCEPT !.failures = Append(@, Item(th)), !.pc = "done", !.raised = TRUE,
                    !.signals = Append(@, "failed")]
    ELSE [th EXCEPT !.pc = "done", !.raised = TRUE]

\* get has returned sp.  download appends it, calls progress_callback(idx, total)
\* and takes the next record, or returns and run emits finished
\* (downloader.py:27, 32-34, main_window.py:206); bulk_get appends it
Got(th, sp) ==
    LET progress == IF th.kind = "worker"
                    THEN Append(th.progress, <<th.idx, Len(th.records)>>)
                    ELSE th.progress
    IN IF th.idx < Len(th.records)
       THEN [th EXCEPT !.downloaded = Append(@, sp), !.progress = progress,
                       !.idx = @ + 1, !.pc = "check",
                       !.asked = Append(@, th.records[th.idx + 1])]
       ELSE [th EXCEPT !.downloaded = Append(@, sp), !.progress = progress,
                       !.pc = "done",
                       !.signals = IF th.kind = "worker" THEN Append(@, "finished") ELSE @]

DlFrame == UNCHANGED <<rb_vars, es_vars, cb_vars, sn_vars, rv_vars, sv_vars, st_vars, ap_vars>>

InitDownload ==
    /\ dl_cache = <<>> /\ dl_objects = <<>> /\ dl_fetches = <<>>
    /\ dl_threads = <<IdleThread, IdleThread>>
    /\ AppIdle
    /\ RebinIdle /\ EstIdle /\ CombIdle
    /\ SnrIdle /\ VelocityIdle /\ ServiceIdle /\ StorageIdle

\* _on_download: a DownloadWorker is started on the selected records
OnDownload(t, recs) ==
    /\ dl_threads[t].pc = "idle"
    /\ dl_threads' = [dl_threads EXCEPT ![t] = Started("worker", recs)]
    /\ UNCHANGED <<dl_cache, dl_objects, dl_fetches>>
    /\ DlFrame

\* _on_view or _on_combine: the GUI thread calls store.bulk_get(selected)
OnBulkGet(t, recs) ==
    /\ dl_threads[t].pc = "idle"
    /\ dl_threads' = [dl_threads EXCEPT ![t] = Started("gui", recs)]
    /\ UNCHANGED <<dl_cache, dl_objects, dl_fetches>>
    /\ DlFrame

\* get, line 133: the identifier is not in the cache
CheckAbsent(t) ==
    /\ dl_threads[t].pc = "check"
    /\ ~CacheHas(dl_cache, Item(dl_threads[t]))
    /\ dl_threads' = [dl_threads EXCEPT ![t].pc = "fetch"]
    /\ UNCHANGED <<dl_cache, dl_objects, dl_fetches>>
    /\ DlFrame

\* get, line 133: the identifier is in the cache
CheckPresent(t) ==
    /\ dl_threads[t].pc = "check"
    /\ CacheHas(dl_cache, Item(dl_threads[t]))
    /\ dl_threads' = [dl_threads EXCEPT ![t].pc = "return"]
    /\ UNCHANGED <<dl_cache, dl_objects, dl_fetches>>
    /\ DlFrame

\* repository.fetch returns a new SpectrumData
FetchReturns(t) ==
    /\ dl_threads[t].pc = "fetch"
    /\ dl_objects' = Append(dl_objects, [metadata |-> Item(dl_threads[t])])
    /\ dl_fetches' = Append(dl_fetches, [obs_id |-> Item(dl_threads[t]), thread |-> t,
                                         ok |-> TRUE])
    /\ dl_threads' = [dl_threads EXCEPT ![t].pc = "assign", ![t].got = Len(dl_objects) + 1]
    /\ UNCHANGED dl_cache
    /\ DlFrame

\* repository.fetch raises
FetchRaises(t) ==
    /\ dl_threads[t].pc = "fetch"
    /\ dl_fetches' = Append(dl_fetches, [obs_id |-> Item(dl_threads[t]), thread |-> t,
                                         ok |-> FALSE])
    /\ dl_threads' = [dl_threads EXCEPT ![t] = Failed(dl_threads[t])]
    /\ UNCHANGED <<dl_cache, dl_objects>>
    /\ DlFrame

\* get, line 134: the assignment to the cache
Assign(t) ==
    /\ dl_threads[t].pc = "assign"
    /\ dl_cache' = CachePut(dl_cache, Item(dl_threads[t]), dl_threads[t].got)
    /\ dl_threads' = [dl_threads EXCEPT ![t].pc = "return"]
    /\ UNCHANGED <<dl_objects, dl_fetches>>
    /\ DlFrame

\* get, line 135: the cache is read and get returns
ReadAndReturn(t) ==
    /\ dl_threads[t].pc = "return"
    /\ dl_threads' = [dl_threads EXCEPT ![t] =
                        Got(dl_threads[t], CacheGet(dl_cache, Item(dl_threads[t])))]
    /\ UNCHANGED <<dl_cache, dl_objects, dl_fetches>>
    /\ DlFrame

NextDownload ==
    \/ \E t \in {1, 2}, recs \in DlSelections : OnDownload(t, recs)
    \/ \E recs \in DlSelections : OnBulkGet(2, recs)
    \/ \E t \in {1, 2} : CheckAbsent(t)
    \/ \E t \in {1, 2} : CheckPresent(t)
    \/ \E t \in {1, 2} : FetchReturns(t)
    \/ \E t \in {1, 2} : FetchRaises(t)
    \/ \E t \in {1, 2} : Assign(t)
    \/ \E t \in {1, 2} : ReadAndReturn(t)

SpecDownload == InitDownload /\ [][NextDownload]_vars

---------------------------------------------------------------------------
(* The store under concurrent callers *)

\* C26: while a worker runs get, bulk_get on the GUI thread or a second
\* worker may run on the same records; still no two fetches of one obs_id
\* return, and any two callers that asked for one obs_id received one object.
C26_OneFetchAndOneObjectPerId ==
    /\ \A i \in 1..Len(dl_fetches), j \in 1..Len(dl_fetches) :
        (i < j /\ dl_fetches[i].obs_id = dl_fetches[j].obs_id) =>
            ~(dl_fetches[i].ok /\ dl_fetches[j].ok)
    /\ \A t \in 1..Len(dl_threads), u \in 1..Len(dl_threads) :
        \A k \in 1..Len(dl_threads[t].downloaded), l \in 1..Len(dl_threads[u].downloaded) :
            dl_threads[t].records[k] = dl_threads[u].records[l] =>
                dl_threads[t].downloaded[k] = dl_threads[u].downloaded[l]

---------------------------------------------------------------------------
(* One download *)

\* the progress reports (1, total), ..., (n, total)
ProgressUpTo(n, total) == [k \in 1..n |-> <<k, total>>]

\* C28: a worker asks the store for its records in the given order, one at a
\* time, and reports (k, total) after the k-th has been returned.  If every get
\* returns it ends with one spectrum per record, in order, all reports made, no
\* failure reported and the signal finished.  At the first get that raises it
\* ends with that record as the only failure reported, no report for it, no get
\* and no fetch for a later record, the earlier records in the cache, and the
\* signal failed.  It emits nothing before it ends and one signal when it ends.
C28_DownloadInOrderUntilFirstFailure ==
    \A t \in 1..Len(dl_threads) :
        \E th \in {dl_threads[t]} :
            th.kind = "worker" =>
                /\ th.asked = SubSeq(th.records, 1, th.idx)
                /\ th.progress = ProgressUpTo(Len(th.downloaded), Len(th.records))
                /\ \A k \in 1..Len(th.downloaded) :
                    dl_objects[th.downloaded[k]].metadata = th.records[k]
                /\ \A i \in 1..Len(dl_fetches), j \in 1..Len(dl_fetches) :
                    (i < j /\ dl_fetches[i].thread = t /\ dl_fetches[j].thread = t)
                        => dl_fetches[i].ok
                /\ th.pc # "done" =>
                    /\ th.signals = <<>> /\ th.failures = <<>>
                    /\ Len(th.downloaded) = th.idx - 1
                /\ th.pc = "done" =>
                    \/ /\ th.signals = <<"finished">>
                       /\ th.failures = <<>>
                       /\ Len(th.downloaded) = Len(th.records)
                    \/ /\ th.signals = <<"failed">>
                       /\ th.failures = <<th.records[th.idx]>>
                       /\ Len(th.downloaded) = th.idx - 1
                       /\ \A k \in 1..(th.idx - 1) : CacheHas(dl_cache, th.records[k])
                       /\ \E i \in 1..Len(dl_fetches) :
                            /\ dl_fetches[i].thread = t
                            /\ dl_fetches[i].obs_id = th.records[th.idx]
                            /\ ~dl_fetches[i].ok

\* one worker has failed at its second record after reporting (1, 2), the
\* other has finished two records
C28_Witness ==
    /\ dl_threads[1].kind = "worker" /\ dl_threads[2].kind = "worker"
    /\ dl_threads[1].pc = "done" /\ dl_threads[2].pc = "done"
    /\ dl_threads[1].signals = <<"failed">>
    /\ dl_threads[1].progress = <<(<<1, 2>>)>>
    /\ dl_threads[1].failures = <<dl_threads[1].records[2]>>
    /\ dl_threads[2].signals = <<"finished">>
    /\ Len(dl_threads[2].downloaded) = 2
===========================================================================
